---- MODULE Spec2Model ----
(***************************************************************************)
(* A model of the water-quality dashboard in src/app.py: the Supabase      *)
(* tables water_quality, sites and pending_admins, the per-session         *)
(* st.session_state keys the handlers read and write, and one action per   *)
(* button handler of the Streamlit script.                                 *)
(***************************************************************************)
EXTENDS Integers, Sequences, FiniteSets, TLC

VARIABLES
    wq,              \* table water_quality: record id -> row
    nextId,          \* next surrogate id the store assigns on insert
    sites,           \* table sites: sequence of rows in storage order
    nextSiteId,      \* next surrogate id of the sites table
    pending_admins,  \* table pending_admins: set of rows [email, status]
    auth_users,      \* emails registered with the auth service
    sess,            \* st.session_state of every browser session
    last,            \* the handler that ran last, with its inputs and outcome
    steps,           \* number of handlers run so far
    probe            \* arguments and result of the last pure-function call

vars == <<wq, nextId, sites, nextSiteId, pending_admins, auth_users, sess, last, steps, probe>>

----------------------------------------------------------------------------
(* Bounds of the model.                                                     *)

\* handlers run in one behaviour
MaxSteps == 4
\* surrogate ids the water_quality table hands out
MaxId == 3
\* rows the sites table may grow to
MaxSites == 3

----------------------------------------------------------------------------
(* Values.                                                                  *)

\* Python None / SQL null, and a present value
None == <<>>
Some(v) == <<v>>
IsNone(o) == o = <<>>
Get(o) == o[1]

\* float('nan') as pandas shows it when a dict .map() misses
NaN == "nan"

Sessions == {"s1", "s2"}

ADMIN_EMAIL == "megandaiger@gmail.com"
Emails == {ADMIN_EMAIL, "vol@brwg.org", "new@brwg.org"}
\* the accounts that log in to the dashboard: the configured administrator
\* and a volunteer
Accounts == {ADMIN_EMAIL, "vol@brwg.org"}
\* the auth provider's user id of an account
UserId(email) == <<"uid", email>>

Statuses == {"approved", "denied"}

BlueFull == "Blue River at Silverthorne Pavilion- 196"
SnakeFull == "Snake River KSS- 52"
SwanFull == "Swan River Reach A- 1007"
LegacyTokens == {"Site 1", "Site 2", "Site 3"}

\* the pair of a legacy token: its full site name
LegacyFull(tok) ==
    CASE tok = "Site 1" -> BlueFull
      [] tok = "Site 2" -> SnakeFull
      [] tok = "Site 3" -> SwanFull

----------------------------------------------------------------------------
(* Access control.                                                          *)

\* a plausible slip: the status filter of the lookup is dropped
is_admin_any_status(email, table, lookupOk) ==
    \/ email = ADMIN_EMAIL
    \/ lookupOk /\ \E r \in table : r.email = email

\* is_admin(email): the configured address, or an approved row; a failed
\* lookup is swallowed by the bare except and counts as "not found"
is_admin(email, table, lookupOk) ==
    IF email = ADMIN_EMAIL
    THEN TRUE
    ELSE IF lookupOk
         THEN LET data == {r \in table : r.email = email /\ r.status = "approved"}
              IN  data # {}
         ELSE FALSE

----------------------------------------------------------------------------
(* Site registry.                                                           *)

\* the three hardcoded (full_name, short_name) entries
DefaultSites ==
    << <<BlueFull, "Blue River">>,
       <<SnakeFull, "Snake River">>,
       <<SwanFull, "Swan River">> >>

\* a plausible slip: an empty table is returned as it is
get_sites_no_default(table, fetchOk) ==
    IF fetchOk
    THEN [i \in 1..Len(table) |-> <<table[i].full_name, table[i].short_name>>]
    ELSE DefaultSites

\* get_sites(): the table's pairs, or the defaults when the fetch fails or
\* returns no rows
get_sites(table, fetchOk) ==
    IF fetchOk
    THEN IF Len(table) > 0
         THEN [i \in 1..Len(table) |-> <<table[i].full_name, table[i].short_name>>]
         ELSE DefaultSites
    ELSE DefaultSites

\* {full_name: short_name for full_name, short_name in sites}: a later pair
\* with the same key overwrites an earlier one
DictOfPairs(pairs) ==
    [k \in {pairs[i][1] : i \in 1..Len(pairs)} |->
        LET last_i == CHOOSE i \in 1..Len(pairs) :
                          /\ pairs[i][1] = k
                          /\ \A j \in 1..Len(pairs) : pairs[j][1] = k => j <= i
        IN  pairs[last_i][2]]

\* the hardcoded legacy entries of site_mapping.update({...})
LegacyShort(tok) ==
    CASE tok = "Site 1" -> "Blue River"
      [] tok = "Site 2" -> "Snake River"
      [] tok = "Site 3" -> "Swan River"

\* site_mapping of view_data and edit_data: the dict of get_sites(), updated
\* with the three legacy tokens
site_mapping(pairs) ==
    LET d == DictOfPairs(pairs)
    IN  [k \in DOMAIN d \cup LegacyTokens |->
            IF k \in LegacyTokens THEN LegacyShort(k) ELSE d[k]]

\* view_data: df['site'].map(site_mapping), then fillna with the stored value
site_abbrev(stored, pairs) ==
    LET m == site_mapping(pairs)
        mapped == IF stored \in DOMAIN m THEN m[stored] ELSE NaN
    IN  IF mapped = NaN THEN stored ELSE mapped

\* edit_data: df['site'].map(site_mapping) with no fallback
site_display(stored, pairs) ==
    LET m == site_mapping(pairs)
    IN  IF stored \in DOMAIN m THEN m[stored] ELSE NaN

----------------------------------------------------------------------------
(* Dates and their string forms.                                            *)

\* datetime.date values the date widgets can hold
Dates == {[y |-> 2024, m |-> 1, d |-> 2], [y |-> 2024, m |-> 2, d |-> 1]}

\* strftime('%Y-%m-%d') and str(date): year, month, day
strftime_iso(date) == <<date.y, date.m, date.d>>

\* strftime('%m/%d/%Y'): month, day, year
strftime_us(date) == <<date.m, date.d, date.y>>

\* pd.to_datetime(text).date(): a year-first text is ISO, anything else is
\* read month first
to_datetime(text) ==
    IF text[1] > 31
    THEN [y |-> text[1], m |-> text[2], d |-> text[3]]
    ELSE [y |-> text[3], m |-> text[1], d |-> text[2]]

\* order of two stored (ISO) dates
DateLess(a, b) ==
    \/ a[1] < b[1]
    \/ a[1] = b[1] /\ a[2] < b[2]
    \/ a[1] = b[1] /\ a[2] = b[2] /\ a[3] < b[3]

----------------------------------------------------------------------------
(* Measurement records and the two forms that build them.                   *)

\* the seven numeric columns of water_quality
Fields ==
    {"dissolved_oxygen_mg", "dissolved_oxygen_sat", "hardness", "alkalinity",
     "ph", "temperature", "flow"}

\* values a number_input can return
Nums == {0, 1}

\* a plausible slip: the selected full name is stored as it is
db_site_name_as_selected(site) == site

\* site_name_mapping.get(site, site) of the two forms and of the lookup:
\* the three default full names are stored as their legacy tokens
db_site_name(site) ==
    CASE site = BlueFull -> "Site 1"
      [] site = SnakeFull -> "Site 2"
      [] site = SwanFull -> "Site 3"
      [] OTHER -> site

\* site_name_mapping.get(stored, stored) of the chart-click hand-off: a
\* legacy token is shown as its full name
full_site_name(stored) ==
    IF stored \in LegacyTokens THEN LegacyFull(stored) ELSE stored

\* a plausible slip: the flow toggle is not applied
entry_data_flow_kept(selected_site, selected_date, user_id, notes, widget, na) ==
    [site |-> db_site_name(selected_site),
     date |-> strftime_iso(selected_date),
     user_id |-> user_id,
     notes |-> IF notes # "" THEN Some(notes) ELSE None,
     dissolved_oxygen_mg |->
        IF na["dissolved_oxygen_mg"] THEN None ELSE Some(widget["dissolved_oxygen_mg"]),
     dissolved_oxygen_sat |->
        IF na["dissolved_oxygen_sat"] THEN None ELSE Some(widget["dissolved_oxygen_sat"]),
     hardness |-> IF na["hardness"] THEN None ELSE Some(widget["hardness"]),
     alkalinity |-> IF na["alkalinity"] THEN None ELSE Some(widget["alkalinity"]),
     ph |-> IF na["ph"] THEN None ELSE Some(widget["ph"]),
     temperature |-> IF na["temperature"] THEN None ELSE Some(widget["temperature"]),
     flow |-> Some(widget["flow"])]

\* the entry form: each field is the number_input's value unless its N/A
\* checkbox is set, and the payload `data` copies every field
entry_data(selected_site, selected_date, user_id, notes, widget, na) ==
    LET dissolved_oxygen_mg ==
            IF na["dissolved_oxygen_mg"] THEN None ELSE Some(widget["dissolved_oxygen_mg"])
        dissolved_oxygen_sat ==
            IF na["dissolved_oxygen_sat"] THEN None ELSE Some(widget["dissolved_oxygen_sat"])
        hardness == IF na["hardness"] THEN None ELSE Some(widget["hardness"])
        alkalinity == IF na["alkalinity"] THEN None ELSE Some(widget["alkalinity"])
        ph == IF na["ph"] THEN None ELSE Some(widget["ph"])
        temp == IF na["temperature"] THEN None ELSE Some(widget["temperature"])
        flow == IF na["flow"] THEN None ELSE Some(widget["flow"])
    IN  [site |-> db_site_name(selected_site),
         date |-> strftime_iso(selected_date),
         user_id |-> user_id,
         notes |-> IF notes # "" THEN Some(notes) ELSE None,
         dissolved_oxygen_mg |->
            IF ~IsNone(dissolved_oxygen_mg) THEN dissolved_oxygen_mg ELSE None,
         dissolved_oxygen_sat |->
            IF ~IsNone(dissolved_oxygen_sat) THEN dissolved_oxygen_sat ELSE None,
         hardness |-> IF ~IsNone(hardness) THEN hardness ELSE None,
         alkalinity |-> IF ~IsNone(alkalinity) THEN alkalinity ELSE None,
         ph |-> IF ~IsNone(ph) THEN ph ELSE None,
         temperature |-> IF ~IsNone(temp) THEN temp ELSE None,
         flow |-> IF ~IsNone(flow) THEN flow ELSE None]

\* the admin list edit form: update_data, which carries no user_id
update_data(new_site, new_date, notes, widget, na) ==
    LET do_mg ==
            IF na["dissolved_oxygen_mg"] THEN None ELSE Some(widget["dissolved_oxygen_mg"])
        do_sat ==
            IF na["dissolved_oxygen_sat"] THEN None ELSE Some(widget["dissolved_oxygen_sat"])
        hardness == IF na["hardness"] THEN None ELSE Some(widget["hardness"])
        alkalinity == IF na["alkalinity"] THEN None ELSE Some(widget["alkalinity"])
        ph == IF na["ph"] THEN None ELSE Some(widget["ph"])
        temp == IF na["temperature"] THEN None ELSE Some(widget["temperature"])
        flow == IF na["flow"] THEN None ELSE Some(widget["flow"])
    IN  [site |-> db_site_name(new_site),
         date |-> strftime_iso(new_date),
         dissolved_oxygen_mg |-> do_mg,
         dissolved_oxygen_sat |-> do_sat,
         hardness |-> hardness,
         alkalinity |-> alkalinity,
         ph |-> ph,
         temperature |-> temp,
         flow |-> flow,
         notes |-> Some(notes)]

----------------------------------------------------------------------------
(* The water_quality table.                                                 *)

\* a plausible slip: the update leaves the user_id column as it was
StoreUpdate_keeps_user_id(table, id, patch) ==
    IF id \in DOMAIN table
    THEN [table EXCEPT ![id] =
            [k \in DOMAIN table[id] |->
                IF k \in DOMAIN patch \ {"user_id"} THEN patch[k] ELSE table[id][k]]]
    ELSE table

\* a plausible slip: a None of the patch leaves the stored column as it was
StoreUpdate_skips_none(table, id, patch) ==
    IF id \in DOMAIN table
    THEN [table EXCEPT ![id] =
            [k \in DOMAIN table[id] |->
                IF k \in DOMAIN patch /\ ~(k \in Fields /\ patch[k] = None)
                THEN patch[k] ELSE table[id][k]]]
    ELSE table

\* update(patch).eq('id', id): the columns of the patch replace the row's;
\* no row with that id: nothing changes
StoreUpdate(table, id, patch) ==
    IF id \in DOMAIN table
    THEN [table EXCEPT ![id] =
            [k \in DOMAIN table[id] |->
                IF k \in DOMAIN patch THEN patch[k] ELSE table[id][k]]]
    ELSE table

\* insert(data): a new row under the next surrogate id; columns the payload
\* leaves out are null
StoreInsert(table, id, data) ==
    [i \in DOMAIN table \cup {id} |->
        IF i = id
        THEN [id |-> id,
              site |-> data.site,
              date |-> data.date,
              user_id |-> data.user_id,
              notes |-> data.notes,
              dissolved_oxygen_mg |-> data.dissolved_oxygen_mg,
              dissolved_oxygen_sat |-> data.dissolved_oxygen_sat,
              hardness |-> data.hardness,
              alkalinity |-> data.alkalinity,
              ph |-> data.ph,
              temperature |-> data.temperature,
              flow |-> data.flow]
        ELSE table[i]]

\* delete().eq('id', id)
StoreDelete(table, id) == [i \in DOMAIN table \ {id} |-> table[i]]

\* select("*").eq('site', site).eq('date', date): the ids of the matches
SelectBySiteDate(table, site, date) ==
    {i \in DOMAIN table : table[i].site = site /\ table[i].date = date}

----------------------------------------------------------------------------
(* The chart view.                                                          *)

\* the seven charted columns, in the order of `parameters`
parameters ==
    <<"dissolved_oxygen_mg", "dissolved_oxygen_sat", "hardness", "alkalinity",
      "ph", "temperature", "flow">>

\* a plausible slip: flow is listed among the columns whose zero is dropped
zero_not_meaningful_with_flow(param_col) ==
    param_col \in {"dissolved_oxygen_mg", "dissolved_oxygen_sat", "hardness",
                   "alkalinity", "ph", "flow"}

\* a plausible slip: temperature is listed among the columns whose zero is
\* dropped
zero_not_meaningful_with_temperature(param_col) ==
    param_col \in {"dissolved_oxygen_mg", "dissolved_oxygen_sat", "hardness",
                   "alkalinity", "ph", "temperature"}

\* the columns whose stored zero is turned into NaN
zero_not_meaningful(param_col) ==
    param_col \in {"dissolved_oxygen_mg", "dissolved_oxygen_sat", "hardness",
                   "alkalinity", "ph"}

\* row i comes before row j in select("*").order('date'); rows of one date
\* are taken in id order
RowBefore(table, i, j) ==
    \/ DateLess(table[i].date, table[j].date)
    \/ table[i].date = table[j].date /\ i < j

RECURSIVE OrderIds(_, _)
OrderIds(table, ids) ==
    IF ids = {}
    THEN <<>>
    ELSE LET first == CHOOSE i \in ids : \A j \in ids \ {i} : RowBefore(table, i, j)
         IN  <<first>> \o OrderIds(table, ids \ {first})

\* the ids of the fetched frame df, in date order
df_ids(table) == OrderIds(table, DOMAIN table)

\* df_processed[param_col] of row i: a zero of a zero_not_meaningful column
\* becomes NaN (None here), every other value is kept
df_processed(table, i, param_col) ==
    IF zero_not_meaningful(param_col) /\ table[i][param_col] = Some(0)
    THEN None
    ELSE table[i][param_col]

\* GroupBy 'first': the first value of the group that is not null
RECURSIVE FirstNotNull(_)
FirstNotNull(values) ==
    IF values = <<>>
    THEN None
    ELSE IF ~IsNone(Head(values)) THEN Head(values) ELSE FirstNotNull(Tail(values))

\* df_param: one point per (site, site_abbrev, date) group of df_processed,
\* with the group's first value of the column and first id
df_param(table, param_col, pairs) ==
    LET order == df_ids(table)
        keys == {<<table[i].site, table[i].date>> : i \in DOMAIN table}
        members(k) ==
            SelectSeq(order, LAMBDA i : table[i].site = k[1] /\ table[i].date = k[2])
    IN  {[site |-> k[1],
          site_abbrev |-> site_abbrev(k[1], pairs),
          date |-> k[2],
          y |-> FirstNotNull([n \in 1..Len(members(k)) |->
                                 df_processed(table, members(k)[n], param_col)]),
          id |-> members(k)[1]] : k \in keys}

\* the stored site values in the order Python compares the strings
SiteOrder ==
    <<BlueFull, "Clear Creek- 7", "Mystery Creek", "Site 1", "Site 2", "Site 3",
      SnakeFull, SwanFull>>

SiteRank(site) == CHOOSE n \in 1..Len(SiteOrder) : SiteOrder[n] = site

\* the order groupby(['site', 'site_abbrev', 'date']) leaves its groups in
PointBefore(a, b) ==
    \/ SiteRank(a.site) < SiteRank(b.site)
    \/ a.site = b.site /\ DateLess(a.date, b.date)

RECURSIVE SortPoints(_)
SortPoints(points) ==
    IF points = {}
    THEN <<>>
    ELSE LET first == CHOOSE a \in points : \A b \in points \ {a} : PointBefore(a, b)
         IN  <<first>> \o SortPoints(points \ {first})

\* Series.unique(): the values in their order of first appearance
RECURSIVE Uniques(_)
Uniques(values) ==
    IF values = <<>>
    THEN <<>>
    ELSE LET before == Uniques(SubSeq(values, 1, Len(values) - 1))
             v == values[Len(values)]
         IN  IF \E n \in 1..Len(before) : before[n] = v
             THEN before
             ELSE Append(before, v)

\* the rows of the frame px.line draws
df_param_rows(table, param_col, pairs) == SortPoints(df_param(table, param_col, pairs))

\* category_orders of px.line
category_orders == <<"Blue River", "Snake River", "Swan River">>

\* the traces of the figure: the listed names that occur, in the listed
\* order, then the other names in their order of appearance in df_param
trace_names(table, param_col, pairs) ==
    LET rows == df_param_rows(table, param_col, pairs)
        names == [n \in 1..Len(rows) |-> rows[n].site_abbrev]
        occurs(a) == \E n \in 1..Len(names) : names[n] = a
        listed(a) == \E n \in 1..Len(category_orders) : category_orders[n] = a
    IN  SelectSeq(category_orders, occurs)
           \o Uniques(SelectSeq(names, LAMBDA a : ~listed(a)))

\* the points of one trace, in the order of df_param
trace_points(table, param_col, pairs, name) ==
    SelectSeq(df_param_rows(table, param_col, pairs),
              LAMBDA pt : pt.site_abbrev = name)

\* df_processed['site_abbrev'].unique()
unique_sites(table, pairs) ==
    LET order == df_ids(table)
    IN  Uniques([n \in 1..Len(order) |-> site_abbrev(table[order[n]].site, pairs)])

\* df_processed[df_processed['site_abbrev'] == name].reset_index(drop=True)
site_data(table, pairs, name) ==
    SelectSeq(df_ids(table), LAMBDA i : site_abbrev(table[i].site, pairs) = name)

\* a plausible slip: the point index is not checked against the site's rows
click_row_unchecked(table, pairs, curve_number, point_index) ==
    IF curve_number < Len(unique_sites(table, pairs))
    THEN LET rows == site_data(table, pairs,
                               unique_sites(table, pairs)[curve_number + 1])
         IN  Some(rows[IF point_index < Len(rows) THEN point_index + 1 ELSE Len(rows)])
    ELSE None

\* the click handling: the row of the frame that the curve number and the
\* point index select, None when either is out of range
click_row(table, pairs, curve_number, point_index) ==
    IF curve_number < Len(unique_sites(table, pairs))
    THEN LET rows == site_data(table, pairs,
                               unique_sites(table, pairs)[curve_number + 1])
         IN  IF point_index < Len(rows) THEN Some(rows[point_index + 1]) ELSE None
    ELSE None

----------------------------------------------------------------------------
(* Session state and the initial states.                                    *)

\* an empty st.session_state
NewSession ==
    [user |-> None,
     pending_wq_save |-> None,
     clicked |-> None,
     confirm_delete |-> {},
     editing_data |-> {},
     editing_site |-> {},
     pending_site_save |-> None]

NoAct == [kind |-> "none", s |-> "s1", arg |-> None, result |-> "none"]
Act(kind, s, arg, result) == [kind |-> kind, s |-> s, arg |-> arg, result |-> result]
NoProbe == [op |-> "none"]

\* the bookkeeping of one handler run by session s
Log(kind, s, arg, result) ==
    /\ last' = Act(kind, s, arg, result)
    /\ steps' = steps + 1

\* a stored row
Row(id, site, date, v, flow, email) ==
    [id |-> id, site |-> site, date |-> strftime_iso(date), user_id |-> UserId(email),
     notes |-> None,
     dissolved_oxygen_mg |-> v, dissolved_oxygen_sat |-> v, hardness |-> v,
     alkalinity |-> v, ph |-> v, temperature |-> v, flow |-> flow]

\* rows of the sites table as the project's setup seeds them
SiteRow(id, number, full, short) ==
    [id |-> id, site_number |-> number, full_name |-> full, short_name |-> short,
     description |-> "text"]

SeededSites ==
    << SiteRow(1, 196, BlueFull, "Blue River"),
       SiteRow(2, 52, SnakeFull, "Snake River"),
       SiteRow(3, 1007, SwanFull, "Swan River") >>

\* every variable but the ones a specification draws or changes
IdleSessions == [s \in Sessions |-> NewSession]

----------------------------------------------------------------------------
(* is_admin applied to every small pending_admins table.                    *)

InitAdmin ==
    /\ pending_admins \in SUBSET [email : Emails, status : Statuses]
    /\ auth_users = Accounts
    /\ wq = <<>> /\ nextId = 1
    /\ sites = SeededSites /\ nextSiteId = 4
    /\ sess = IdleSessions
    /\ last = NoAct /\ steps = 0
    /\ probe = NoProbe

\* dashboard() and view_data() ask is_admin(user_email)
IsAdminCall(email, lookupOk) ==
    /\ probe' = [op |-> "is_admin", email |-> email, lookupOk |-> lookupOk,
                 result |-> is_admin(email, pending_admins, lookupOk)]
    /\ UNCHANGED <<wq, nextId, sites, nextSiteId, pending_admins, auth_users, sess, last, steps>>

NextAdmin == \E email \in Emails, lookupOk \in BOOLEAN : IsAdminCall(email, lookupOk)

SpecAdmin == InitAdmin /\ [][NextAdmin]_vars

\* C7: is_admin(email) is true exactly when email is the configured
\* administrator address or pending_admins holds an approved row for it; an
\* email with only denied rows is not admin; when the lookup fails every
\* non-configured email is not admin, and the call still returns a boolean.
C7_IsAdmin ==
    probe.op = "is_admin" =>
        LET approved == \E r \in pending_admins :
                            r.email = probe.email /\ r.status = "approved"
        IN  /\ probe.result \in BOOLEAN
            /\ probe.lookupOk =>
                  (probe.result <=> (probe.email = ADMIN_EMAIL \/ approved))
            /\ (probe.email # ADMIN_EMAIL /\ ~approved) => ~probe.result
            /\ (probe.email # ADMIN_EMAIL /\ ~probe.lookupOk) => ~probe.result

\* an approved address that also has a denied row is granted admin
C7_Witness ==
    /\ probe.op = "is_admin"
    /\ probe.email # ADMIN_EMAIL
    /\ [email |-> probe.email, status |-> "approved"] \in pending_admins
    /\ [email |-> probe.email, status |-> "denied"] \in pending_admins
    /\ probe.lookupOk
    /\ probe.result

----------------------------------------------------------------------------
(* The two forms' payloads for every setting of the widgets.                *)

InitForm ==
    /\ probe \in [op : {"input"}, widget : [Fields -> Nums], na : [Fields -> BOOLEAN]]
    /\ wq = <<>> /\ nextId = 1
    /\ sites = SeededSites /\ nextSiteId = 4
    /\ pending_admins = {}
    /\ auth_users = Accounts
    /\ sess = IdleSessions
    /\ last = NoAct /\ steps = 0

\* the entry form's submit button builds `data`
EntryFormBuild(selected_site, selected_date) ==
    /\ probe.op = "input"
    /\ probe' = [op |-> "entry", widget |-> probe.widget, na |-> probe.na,
                 data |-> entry_data(selected_site, selected_date, UserId(ADMIN_EMAIL),
                                     "", probe.widget, probe.na)]
    /\ UNCHANGED <<wq, nextId, sites, nextSiteId, pending_admins, auth_users, sess, last, steps>>

\* the admin list edit form's Save Changes builds update_data
EditFormBuild(new_site, new_date) ==
    /\ probe.op = "input"
    /\ probe' = [op |-> "edit", widget |-> probe.widget, na |-> probe.na,
                 data |-> update_data(new_site, new_date, "", probe.widget, probe.na)]
    /\ UNCHANGED <<wq, nextId, sites, nextSiteId, pending_admins, auth_users, sess, last, steps>>

NextForm ==
    \/ EntryFormBuild(BlueFull, CHOOSE d \in Dates : TRUE)
    \/ EditFormBuild(BlueFull, CHOOSE d \in Dates : TRUE)

SpecForm == InitForm /\ [][NextForm]_vars

\* C4: in the entry form and in the admin list edit form, every numeric
\* field's payload value is null when its N/A toggle is on, whatever the
\* number widget shows, and exactly the widget's value when it is off.
C4_NAToggle ==
    probe.op \in {"entry", "edit"} =>
        \A f \in Fields :
            /\ probe.na[f] => probe.data[f] = None
            /\ ~probe.na[f] => probe.data[f] = Some(probe.widget[f])

\* an entry payload with flow toggled off over a shown 1 and pH kept at 1
C4_Witness ==
    /\ probe.op = "entry"
    /\ probe.na["flow"] /\ probe.widget["flow"] = 1 /\ probe.data["flow"] = None
    /\ ~probe.na["ph"] /\ probe.widget["ph"] = 1 /\ probe.data["ph"] = Some(1)

----------------------------------------------------------------------------
(* The chart view over every small store.                                   *)

\* rows per store of the chart specification
MaxChartRows == 2

\* stored site values: a legacy token, a full name, and one that is neither
StoredSiteValues == {"Site 1", BlueFull, "Mystery Creek"}

\* stored numeric values: null, a zero, a reading
StoredValues == {None, Some(0), Some(1)}

ChartStores ==
    UNION {[1..n -> {Row(0, site, date, v, v, ADMIN_EMAIL) :
                        site \in StoredSiteValues, date \in Dates, v \in StoredValues}]
            : n \in 0..MaxChartRows}

InitChart ==
    /\ \E t \in ChartStores :
          /\ wq = [i \in DOMAIN t |-> [t[i] EXCEPT !.id = i]]
          /\ nextId = Len(t) + 1
    /\ sites = SeededSites /\ nextSiteId = 4
    /\ pending_admins = {}
    /\ auth_users = Accounts
    /\ sess = IdleSessions
    /\ last = NoAct /\ steps = 0
    /\ probe = NoProbe

\* view_data(): one deduplicated series per parameter; a failed fetch or an
\* empty table draws nothing
ViewData(fetchOk, sitesOk) ==
    /\ probe' = [op |-> "chart",
                 drawn |-> fetchOk /\ DOMAIN wq # {},
                 series |-> [param_col \in Fields |->
                               IF fetchOk /\ DOMAIN wq # {}
                               THEN df_param(wq, param_col, get_sites(sites, sitesOk))
                               ELSE {}]]
    /\ UNCHANGED <<wq, nextId, sites, nextSiteId, pending_admins, auth_users, sess, last, steps>>

NextChart == \E fetchOk \in BOOLEAN, sitesOk \in BOOLEAN : ViewData(fetchOk, sitesOk)

SpecChart == InitChart /\ [][NextChart]_vars

\* the stores the clicks are made on: every row holds a reading
ClickStores ==
    UNION {[1..n -> {Row(0, site, date, Some(1), Some(1), ADMIN_EMAIL) :
                        site \in StoredSiteValues, date \in Dates}]
            : n \in 1..MaxChartRows}

\* an administrator is logged in and looks at the charts
InitClick ==
    /\ \E t \in ClickStores :
          /\ wq = [i \in DOMAIN t |-> [t[i] EXCEPT !.id = i]]
          /\ nextId = Len(t) + 1
    /\ sites = SeededSites /\ nextSiteId = 4
    /\ pending_admins = {}
    /\ auth_users = Accounts
    /\ sess = [s \in Sessions |->
                 IF s = "s1" THEN [NewSession EXCEPT !.user = Some(ADMIN_EMAIL)]
                 ELSE NewSession]
    /\ last = NoAct /\ steps = 0
    /\ probe = NoProbe

\* the chart that is clicked
ClickedCharts == {"ph"}

\* view_data() of an admin session with a click event of the chart of
\* param_col: the clicked_* keys are set from the row the click resolves to
ChartClick(s, param_col, curve_number, point_index, sitesOk) ==
    /\ ~IsNone(sess[s].user)
    /\ is_admin(Get(sess[s].user), pending_admins, TRUE)
    /\ DOMAIN wq # {}
    /\ LET pairs == get_sites(sites, sitesOk)
           row == click_row(wq, pairs, curve_number, point_index)
       IN  /\ sess' = IF IsNone(row)
                      THEN sess
                      ELSE [sess EXCEPT ![s].clicked =
                              Some([id |-> Get(row),
                                    site |-> wq[Get(row)].site,
                                    date |-> strftime_us(to_datetime(wq[Get(row)].date))])]
           /\ probe' = [op |-> "click", s |-> s, param_col |-> param_col,
                        curve_number |-> curve_number, point_index |-> point_index,
                        pairs |-> pairs,
                        result |-> IF IsNone(row) THEN "ignored" ELSE "selected"]
    /\ UNCHANGED <<wq, nextId, sites, nextSiteId, pending_admins, auth_users, last, steps>>

NextClick ==
    \E s \in Sessions, param_col \in ClickedCharts, sitesOk \in BOOLEAN,
       curve_number \in 0..MaxChartRows, point_index \in 0..MaxChartRows :
       ChartClick(s, param_col, curve_number, point_index, sitesOk)

SpecClick == InitClick /\ [][NextClick]_vars

\* the five chemistry parameters
Chemistry == {"dissolved_oxygen_mg", "dissolved_oxygen_sat", "hardness", "alkalinity", "ph"}

\* C5: in a drawn chart a stored 0 of a chemistry parameter is never plotted
\* as 0, and is a gap when its (site, date) has no other reading; a stored 0
\* of flow is plotted as 0 (it is the point of its (site, date) unless an
\* earlier row of that pair has a reading).
C5_ZeroGap ==
    (probe.op = "chart" /\ probe.drawn) =>
        \A i \in DOMAIN wq : \A p \in Chemistry \cup {"flow"} :
            wq[i][p] = Some(0) =>
                LET group == SelectBySiteDate(wq, wq[i].site, wq[i].date)
                IN  \E pt \in probe.series[p] :
                        /\ pt.site = wq[i].site
                        /\ pt.date = wq[i].date
                        /\ p \in Chemistry =>
                              /\ pt.y # Some(0)
                              /\ (\A j \in group : wq[j][p] \in {None, Some(0)})
                                    => pt.y = None
                        /\ p = "flow" =>
                              ((\A j \in group : RowBefore(wq, j, i) => wq[j][p] = None)
                                    => pt.y = Some(0))

\* a chart over a row whose pH and flow are both 0: a pH gap, a flow point 0
C5_Witness ==
    /\ probe.op = "chart" /\ probe.drawn
    /\ \E i \in DOMAIN wq :
          /\ wq[i]["ph"] = Some(0) /\ wq[i]["flow"] = Some(0)
          /\ \E pt \in probe.series["ph"] : pt.id = i /\ pt.y = None
          /\ \E pt \in probe.series["flow"] : pt.id = i /\ pt.y = Some(0)


----------------------------------------------------------------------------
(* Site management (manage_sites), for the admin session "s1".              *)

\* what the widgets of the two site forms are filled with: a new site, the
\* Blue River row with another short name, a second site under Blue River's
\* full name, and a form left empty
SiteFormInputs ==
    {[site_number |-> 7, full_name |-> "Clear Creek- 7",
      short_name |-> "Clear Creek", description |-> "text"],
     [site_number |-> 196, full_name |-> BlueFull,
      short_name |-> "Blue", description |-> "text"],
     [site_number |-> 7, full_name |-> BlueFull,
      short_name |-> "Clear Creek", description |-> "text"],
     [site_number |-> 1000, full_name |-> "",
      short_name |-> "", description |-> ""]}

\* select("*").order('site_number'): a stable insertion sort
RECURSIVE InsertBySiteNumber(_, _)
InsertBySiteNumber(sorted, row) ==
    IF sorted = <<>>
    THEN <<row>>
    ELSE IF row.site_number < Head(sorted).site_number
         THEN <<row>> \o sorted
         ELSE <<Head(sorted)>> \o InsertBySiteNumber(Tail(sorted), row)

RECURSIVE OrderBySiteNumber(_)
OrderBySiteNumber(table) ==
    IF table = <<>>
    THEN <<>>
    ELSE InsertBySiteNumber(OrderBySiteNumber(SubSeq(table, 1, Len(table) - 1)),
                            table[Len(table)])

\* the keys of a dict filled from `rows`, in their order of first insertion
RECURSIVE DictKeys(_)
DictKeys(rows) ==
    IF rows = <<>>
    THEN <<>>
    ELSE LET before == DictKeys(SubSeq(rows, 1, Len(rows) - 1))
             k == rows[Len(rows)].full_name
         IN  IF \E i \in 1..Len(before) : before[i] = k
             THEN before
             ELSE Append(before, k)

\* the hardcoded sites_data of the except branch: no ids
FallbackSitesData ==
    << [full_name |-> BlueFull, id |-> None, site_number |-> 196,
        short_name |-> "Blue River", description |-> "text"],
       [full_name |-> SnakeFull, id |-> None, site_number |-> 52,
        short_name |-> "Snake River", description |-> "text"],
       [full_name |-> SwanFull, id |-> None, site_number |-> 1007,
        short_name |-> "Swan River", description |-> "text"] >>

\* sites_data: the dict keyed by full_name built from the ordered fetch (a
\* later row of the same full name overwrites the entry), or the fallback.
\* Entry i of the model is the item enumerate() numbers i - 1.
sites_data(table, loadOk) ==
    IF loadOk
    THEN LET rows == OrderBySiteNumber(table)
             keys == DictKeys(rows)
             lastOf(k) == CHOOSE i \in 1..Len(rows) :
                             /\ rows[i].full_name = k
                             /\ \A j \in 1..Len(rows) : rows[j].full_name = k => j <= i
         IN  [n \in 1..Len(keys) |->
                [full_name |-> keys[n],
                 id |-> Some(rows[lastOf(keys[n])].id),
                 site_number |-> rows[lastOf(keys[n])].site_number,
                 short_name |-> rows[lastOf(keys[n])].short_name,
                 description |-> rows[lastOf(keys[n])].description]]
    ELSE FallbackSitesData

\* a plausible slip: the update writes the short name only
SitesUpdate_short_name_only(table, site_id, payload) ==
    [n \in 1..Len(table) |->
        IF table[n].id = site_id
        THEN [table[n] EXCEPT !.short_name = payload.short_name]
        ELSE table[n]]

\* a plausible slip: the row is deleted to be written anew, and the new row
\* is lost
SitesUpdate_delete_first(table, site_id, payload) ==
    SelectSeq(table, LAMBDA r : r.id # site_id)

\* update(payload).eq('id', site_id) on the sites table
SitesUpdate(table, site_id, payload) ==
    [n \in 1..Len(table) |->
        IF table[n].id = site_id
        THEN [id |-> table[n].id,
              site_number |-> payload.site_number,
              full_name |-> payload.full_name,
              short_name |-> payload.short_name,
              description |-> payload.description]
        ELSE table[n]]

\* a plausible slip: every logged-in user gets the admin tabs
IsUserAdmin_any_user(s, lookupOk) == ~IsNone(sess[s].user)

\* the session's user is logged in and passes is_admin
IsUserAdmin(s, lookupOk) ==
    /\ ~IsNone(sess[s].user)
    /\ is_admin(Get(sess[s].user), pending_admins, lookupOk)

InitSites ==
    /\ sites \in {<<>>, <<SiteRow(1, 196, BlueFull, "Blue River")>>, SeededSites}
    /\ nextSiteId = Len(sites) + 1
    /\ wq = <<>> /\ nextId = 1
    /\ pending_admins = {}
    /\ auth_users = Accounts
    /\ sess = [s \in Sessions |->
                 IF s = "s1" THEN [NewSession EXCEPT !.user = Some(ADMIN_EMAIL)]
                 ELSE NewSession]
    /\ last = NoAct /\ steps = 0
    /\ probe = NoProbe

\* the Edit button of site entry i
EditSiteButton(s, i, loadOk) ==
    /\ steps < MaxSteps
    /\ IsUserAdmin(s, TRUE)
    /\ i \in 1..Len(sites_data(sites, loadOk))
    /\ i \notin sess[s].editing_site
    /\ sess' = [sess EXCEPT ![s].editing_site = @ \cup {i}]
    /\ Log("EditSite", s, Some(i), "ok")
    /\ UNCHANGED <<wq, nextId, sites, nextSiteId, pending_admins, auth_users, probe>>

\* Save Changes of the edit form of entry i: stages pending_site_save
SaveSiteChanges(s, i, loadOk, number, full, short, description) ==
    /\ steps < MaxSteps
    /\ IsUserAdmin(s, TRUE)
    /\ i \in 1..Len(sites_data(sites, loadOk))
    /\ i \in sess[s].editing_site
    /\ sess' = [sess EXCEPT ![s].pending_site_save =
                  Some([id |-> sites_data(sites, loadOk)[i].id,
                        payload |-> [site_number |-> number,
                                     full_name |-> full,
                                     short_name |-> short,
                                     description |-> description]])]
    /\ Log("SaveSiteChanges", s, Some(i), "staged")
    /\ UNCHANGED <<wq, nextId, sites, nextSiteId, pending_admins, auth_users, probe>>

\* Cancel of the edit form of entry i
CancelSiteEdit(s, i, loadOk) ==
    /\ steps < MaxSteps
    /\ IsUserAdmin(s, TRUE)
    /\ i \in 1..Len(sites_data(sites, loadOk))
    /\ i \in sess[s].editing_site
    /\ sess' = [sess EXCEPT ![s].editing_site = @ \ {i}]
    /\ Log("CancelSiteEdit", s, Some(i), "ok")
    /\ UNCHANGED <<wq, nextId, sites, nextSiteId, pending_admins, auth_users, probe>>

\* Confirm Site Update: with an id the row is updated; without one a warning
\* is shown; a failed update shows an error; the staged payload is popped in
\* every case
ConfirmSiteUpdate(s, storageOk) ==
    /\ steps < MaxSteps
    /\ IsUserAdmin(s, TRUE)
    /\ ~IsNone(sess[s].pending_site_save)
    /\ LET pending_site == Get(sess[s].pending_site_save)
           site_id == pending_site.id
       IN  IF ~IsNone(site_id) /\ Get(site_id) # 0
           THEN IF storageOk
                THEN /\ sites' = SitesUpdate(sites, Get(site_id), pending_site.payload)
                     /\ Log("ConfirmSiteUpdate", s, site_id, "success")
                ELSE /\ sites' = sites
                     /\ Log("ConfirmSiteUpdate", s, site_id, "error")
           ELSE /\ sites' = sites
                /\ Log("ConfirmSiteUpdate", s, site_id, "warning")
    /\ sess' = [sess EXCEPT ![s].pending_site_save = None]
    /\ UNCHANGED <<wq, nextId, nextSiteId, pending_admins, auth_users, probe>>

\* Cancel Site Update
CancelSiteUpdate(s) ==
    /\ steps < MaxSteps
    /\ IsUserAdmin(s, TRUE)
    /\ ~IsNone(sess[s].pending_site_save)
    /\ sess' = [sess EXCEPT ![s].pending_site_save = None]
    /\ Log("CancelSiteUpdate", s, None, "ok")
    /\ UNCHANGED <<wq, nextId, sites, nextSiteId, pending_admins, auth_users, probe>>

\* the text fields of the Add New Site form
AddSiteArg(full, short, description) ==
    [full_name |-> full, short_name |-> short, description |-> description]

\* Add New Site: the three text fields must be filled in; the insert may fail
AddNewSite(s, number, full, short, description, storageOk) ==
    /\ steps < MaxSteps
    /\ IsUserAdmin(s, TRUE)
    /\ Len(sites) < MaxSites
    /\ IF full # "" /\ short # "" /\ description # ""
       THEN IF storageOk
            THEN /\ sites' = Append(sites,
                                [id |-> nextSiteId,
                                 site_number |-> number,
                                 full_name |-> full,
                                 short_name |-> short,
                                 description |-> description])
                 /\ nextSiteId' = nextSiteId + 1
                 /\ Log("AddNewSite", s, AddSiteArg(full, short, description), "success")
            ELSE /\ UNCHANGED <<sites, nextSiteId>>
                 /\ Log("AddNewSite", s, AddSiteArg(full, short, description), "error")
       ELSE /\ UNCHANGED <<sites, nextSiteId>>
            /\ Log("AddNewSite", s, AddSiteArg(full, short, description), "invalid")
    /\ UNCHANGED <<wq, nextId, pending_admins, auth_users, sess, probe>>

NextSites ==
    \/ \E s \in Sessions, loadOk \in BOOLEAN, i \in 1..MaxSites :
          \/ EditSiteButton(s, i, loadOk)
          \/ CancelSiteEdit(s, i, loadOk)
          \/ \E in \in SiteFormInputs :
                SaveSiteChanges(s, i, loadOk, in.site_number, in.full_name,
                                in.short_name, in.description)
    \/ \E s \in Sessions, storageOk \in BOOLEAN : ConfirmSiteUpdate(s, storageOk)
    \/ \E s \in Sessions : CancelSiteUpdate(s)
    \/ \E s \in Sessions, storageOk \in BOOLEAN, in \in SiteFormInputs :
          AddNewSite(s, in.site_number, in.full_name, in.short_name,
                     in.description, storageOk)

SpecSites == InitSites /\ [][NextSites]_vars

\* stored site values that are neither a legacy token nor a full name of the
\* listed sites
Unmapped(pairs) ==
    {v \in StoredSiteValues \cup {"Clear Creek- 7"} :
        v \notin LegacyTokens /\ \A i \in 1..Len(pairs) : pairs[i][1] # v}

\* C6 (first half): in every state of the sites table each legacy token and
\* its full site name resolve to the same short name, in the chart view and
\* in the admin list view.
C6_PairsAgree ==
    \A fetchOk \in BOOLEAN :
        LET pairs == get_sites(sites, fetchOk)
        IN  \A tok \in LegacyTokens :
                /\ site_abbrev(tok, pairs) = site_abbrev(LegacyFull(tok), pairs)
                /\ site_display(tok, pairs) = site_display(LegacyFull(tok), pairs)

\* C6: in every state of the sites table each legacy token and its full
\* site name resolve to the same short name, and a stored site value that is
\* neither a listed full name nor a legacy token resolves to itself, in the
\* chart view and in the admin list view.
C6_DisplayName ==
    /\ C6_PairsAgree
    /\ \A fetchOk \in BOOLEAN :
          LET pairs == get_sites(sites, fetchOk)
          IN  \A v \in Unmapped(pairs) :
                  /\ site_abbrev(v, pairs) = v
                  /\ site_display(v, pairs) = v

----------------------------------------------------------------------------
(* get_sites applied to every small sites table.                            *)

RegistryTables ==
    {SeededSites} \cup
    UNION {[1..n -> {SiteRow(0, 7, full, short) :
                        full \in {BlueFull, "Clear Creek- 7"},
                        short \in {"Blue River", "Clear Creek"}}]
            : n \in 0..MaxSites}

InitRegistry ==
    /\ \E t \in RegistryTables : sites = [i \in DOMAIN t |-> [t[i] EXCEPT !.id = i]]
    /\ nextSiteId = Len(sites) + 1
    /\ wq = <<>> /\ nextId = 1
    /\ pending_admins = {}
    /\ auth_users = Accounts
    /\ sess = IdleSessions
    /\ last = NoAct /\ steps = 0
    /\ probe = NoProbe

\* a script run that lists the sites for a selector or a legend
ListSites(fetchOk) ==
    /\ probe' = [op |-> "get_sites", fetchOk |-> fetchOk,
                 result |-> get_sites(sites, fetchOk)]
    /\ UNCHANGED <<wq, nextId, sites, nextSiteId, pending_admins, auth_users, sess, last, steps>>

NextRegistry == \E fetchOk \in BOOLEAN : ListSites(fetchOk)

SpecRegistry == InitRegistry /\ [][NextRegistry]_vars

\* C10: get_sites returns the table's (full_name, short_name) pairs when the
\* fetch succeeds with at least one row; when the fetch fails or returns no
\* rows it returns exactly the three hardcoded entries for Blue River, Snake
\* River and Swan River; the result is never empty.
C10_GetSites ==
    probe.op = "get_sites" =>
        /\ Len(probe.result) > 0
        /\ (probe.fetchOk /\ Len(sites) > 0) =>
              probe.result =
                 [i \in 1..Len(sites) |-> <<sites[i].full_name, sites[i].short_name>>]
        /\ (~probe.fetchOk \/ Len(sites) = 0) =>
              probe.result = << <<BlueFull, "Blue River">>,
                                <<SnakeFull, "Snake River">>,
                                <<SwanFull, "Swan River">> >>

\* the fetch succeeded on an empty table and the three defaults came back
C10_Witness ==
    /\ probe.op = "get_sites" /\ probe.fetchOk
    /\ Len(sites) = 0
    /\ Len(probe.result) = 3

----------------------------------------------------------------------------
(* The dashboard: login, the entry form and the admin list view.            *)

\* the widget settings the entry and edit forms are submitted with
FormSamples ==
    {[widget |-> [f \in Fields |-> 1], na |-> [f \in Fields |-> FALSE]],
     [widget |-> [f \in Fields |-> 0], na |-> [f \in Fields |-> f = "flow"]]}

\* the sites table of the dashboard specification: a default site and a
\* site added later
DashboardSites ==
    << SiteRow(1, 196, BlueFull, "Blue River"),
       SiteRow(2, 7, "Clear Creek- 7", "Clear Creek") >>

\* the sites the forms are submitted for: a default site, stored under its
\* legacy token, and an added site, stored under its full name
FormSites == {BlueFull, "Clear Creek- 7"}

Date1 == [y |-> 2024, m |-> 1, d |-> 2]
Date2 == [y |-> 2024, m |-> 2, d |-> 1]

\* the stores a behaviour starts from: empty, one row, two rows
InitStores ==
    {<<>>,
     <<Row(1, "Site 1", Date1, Some(1), Some(1), "vol@brwg.org")>>,
     <<Row(1, "Site 1", Date1, Some(1), Some(1), "vol@brwg.org"),
       Row(2, "Clear Creek- 7", Date2, Some(0), Some(0), ADMIN_EMAIL)>>}

Init ==
    /\ wq \in InitStores
    /\ nextId = Len(wq) + 1
    /\ sites = DashboardSites /\ nextSiteId = 3
    /\ pending_admins = {[email |-> "vol@brwg.org", status |-> "approved"]}
    /\ auth_users = Accounts
    /\ sess = IdleSessions
    /\ last = NoAct /\ steps = 0
    /\ probe = NoProbe

\* temp_site_options / site_options: the full names of get_sites()
site_options(pairs) == {pairs[i][1] : i \in 1..Len(pairs)}

\* Login: sign_in_with_password succeeded for a registered account
Login(s, email) ==
    /\ steps < MaxSteps
    /\ email \in auth_users
    /\ IsNone(sess[s].user)
    /\ sess' = [sess EXCEPT ![s].user = Some(email)]
    /\ Log("Login", s, None, "ok")
    /\ UNCHANGED <<wq, nextId, sites, nextSiteId, pending_admins, auth_users, probe>>

\* a plausible slip: Logout clears the whole session state
Logout_clears_session(s) ==
    /\ steps < MaxSteps
    /\ ~IsNone(sess[s].user)
    /\ sess' = [sess EXCEPT ![s] = NewSession]
    /\ Log("Logout", s, None, "ok")
    /\ UNCHANGED <<wq, nextId, sites, nextSiteId, pending_admins, auth_users, probe>>

\* Logout: only the 'user' key is deleted
Logout(s) ==
    /\ steps < MaxSteps
    /\ ~IsNone(sess[s].user)
    /\ sess' = [sess EXCEPT ![s].user = None]
    /\ Log("Logout", s, None, "ok")
    /\ UNCHANGED <<wq, nextId, sites, nextSiteId, pending_admins, auth_users, probe>>

\* a plausible slip: the clicked record is not looked at, the (site, date)
\* lookup always decides
existing_ids_lookup_only(session, table, selected_site, selected_date, byIdOk, lookupOk) ==
    IF lookupOk
    THEN LET data == SelectBySiteDate(table, db_site_name(selected_site),
                                      strftime_iso(selected_date))
         IN  IF data # {} THEN {Some(i) : i \in data} ELSE {None}
    ELSE {None}

\* the entry form's existing_id: the clicked record when its fetch by id
\* finds it, else the first row of the (site, date) lookup (the store returns
\* the matches in no stated order), else None; a failed fetch finds nothing
existing_ids(session, table, selected_site, selected_date, byIdOk, lookupOk) ==
    IF /\ ~IsNone(session.clicked)
       /\ byIdOk
       /\ Get(session.clicked).id \in DOMAIN table
    THEN {Some(Get(session.clicked).id)}
    ELSE IF lookupOk
         THEN LET data == SelectBySiteDate(table, db_site_name(selected_site),
                                           strftime_iso(selected_date))
              IN  IF data # {} THEN {Some(i) : i \in data} ELSE {None}
         ELSE {None}

\* st.session_state['pending_wq_save'] = {...}; the render before it has
\* deleted the clicked_* keys
stage_pending(session, data, existing_id, selected_site, selected_date) ==
    [session EXCEPT
        !.clicked = None,
        !.pending_wq_save =
            Some([data |-> data,
                  existing_id |-> existing_id,
                  selected_site |-> selected_site,
                  selected_date |-> strftime_us(selected_date)])]

\* the form submit button (Submit Data / Update Data)
SubmitData(s, selected_site, selected_date, sample, byIdOk, lookupOk, sitesOk) ==
    /\ steps < MaxSteps
    /\ ~IsNone(sess[s].user)
    /\ selected_site \in site_options(get_sites(sites, sitesOk))
    /\ \E existing_id \in existing_ids(sess[s], wq, selected_site, selected_date,
                                       byIdOk, lookupOk) :
          /\ sess' = [sess EXCEPT ![s] =
                        stage_pending(sess[s],
                                      entry_data(selected_site, selected_date,
                                                 UserId(Get(sess[s].user)), "",
                                                 sample.widget, sample.na),
                                      existing_id, selected_site, selected_date)]
          /\ Log("Submit", s,
                 [by_click |-> /\ ~IsNone(sess[s].clicked)
                               /\ existing_id = Some(Get(sess[s].clicked).id)
                               /\ byIdOk,
                  looked_up |-> lookupOk],
                 "staged")
    /\ UNCHANGED <<wq, nextId, sites, nextSiteId, pending_admins, auth_users, probe>>

\* a plausible slip: Confirm Save inserts whether or not an id is staged
confirm_write_insert_only(table, next, pending) ==
    StoreInsert(table, next, pending.data)

\* a plausible slip: Confirm Save looks again whether the staged id is still
\* in the store and inserts when it is gone
confirm_write_rechecks(table, next, pending) ==
    IF /\ ~IsNone(pending.existing_id)
       /\ Get(pending.existing_id) \in DOMAIN table
    THEN StoreUpdate(table, Get(pending.existing_id), pending.data)
    ELSE StoreInsert(table, next, pending.data)

\* Confirm Save's storage call: update by the staged id when one is staged,
\* insert otherwise
confirm_write(table, next, pending) ==
    IF ~IsNone(pending.existing_id) /\ Get(pending.existing_id) # 0
    THEN StoreUpdate(table, Get(pending.existing_id), pending.data)
    ELSE StoreInsert(table, next, pending.data)

\* Confirm Save: on success the staged payload is popped; a failed storage
\* call shows the error and leaves everything as it was
ConfirmSave(s, storageOk) ==
    /\ steps < MaxSteps
    /\ ~IsNone(sess[s].user)
    /\ ~IsNone(sess[s].pending_wq_save)
    /\ LET pending == Get(sess[s].pending_wq_save)
       IN  /\ IsNone(pending.existing_id) => nextId <= MaxId
           /\ IF storageOk
              THEN /\ wq' = confirm_write(wq, nextId, pending)
                   /\ nextId' = IF DOMAIN wq' = DOMAIN wq THEN nextId ELSE nextId + 1
                   /\ sess' = [sess EXCEPT ![s].pending_wq_save = None]
                   /\ Log("ConfirmSave", s, pending.existing_id, "success")
              ELSE /\ UNCHANGED <<wq, nextId, sess>>
                   /\ Log("ConfirmSave", s, pending.existing_id, "error")
    /\ UNCHANGED <<sites, nextSiteId, pending_admins, auth_users, probe>>

\* a plausible slip: Cancel leaves the staged payload in the session
cancel_pending_kept(session) == session

\* st.session_state.pop('pending_wq_save', None)
cancel_pending(session) == [session EXCEPT !.pending_wq_save = None]

\* Cancel of the confirmation step
CancelSave(s) ==
    /\ steps < MaxSteps
    /\ ~IsNone(sess[s].user)
    /\ ~IsNone(sess[s].pending_wq_save)
    /\ sess' = [sess EXCEPT ![s] = cancel_pending(sess[s])]
    /\ Log("CancelSave", s, None, "ok")
    /\ UNCHANGED <<wq, nextId, sites, nextSiteId, pending_admins, auth_users, probe>>

\* the Edit button of a listed row
EditButton(s, id, lookupOk) ==
    /\ steps < MaxSteps
    /\ IsUserAdmin(s, lookupOk)
    /\ id \in DOMAIN wq
    /\ sess' = [sess EXCEPT ![s].editing_data = @ \cup {id}]
    /\ Log("Edit", s, Some(id), "ok")
    /\ UNCHANGED <<wq, nextId, sites, nextSiteId, pending_admins, auth_users, probe>>

\* a plausible slip: the first click already deletes
delete_click_at_once(table, confirm_delete, id) ==
    [table |-> StoreDelete(table, id), confirm_delete |-> confirm_delete]

\* the Delete button of row id: with confirm_delete_<id> set the row is
\* deleted, else the flag is set; the flag is never reset
delete_click(table, confirm_delete, id) ==
    IF id \in confirm_delete
    THEN [table |-> StoreDelete(table, id), confirm_delete |-> confirm_delete]
    ELSE [table |-> table, confirm_delete |-> confirm_delete \cup {id}]

\* the Delete button; a failed delete call is caught by edit_data's except
\* and changes nothing
DeleteButton(s, id, lookupOk, storageOk) ==
    /\ steps < MaxSteps
    /\ IsUserAdmin(s, lookupOk)
    /\ id \in DOMAIN wq
    /\ IF id \in sess[s].confirm_delete /\ ~storageOk
       THEN /\ UNCHANGED <<wq, sess>>
            /\ Log("Delete", s, Some(id), "error")
       ELSE LET after == delete_click(wq, sess[s].confirm_delete, id)
            IN  /\ wq' = after.table
                /\ sess' = [sess EXCEPT ![s].confirm_delete = after.confirm_delete]
                /\ Log("Delete", s, Some(id),
                       IF id \in sess[s].confirm_delete THEN "deleted" ELSE "armed")
    /\ UNCHANGED <<nextId, sites, nextSiteId, pending_admins, auth_users, probe>>

\* Save Changes of the edit form of row id; a failed update call is caught by
\* edit_data's except and changes nothing
SaveChangesButton(s, id, new_site, new_date, sample, lookupOk, sitesOk, storageOk) ==
    /\ steps < MaxSteps
    /\ IsUserAdmin(s, lookupOk)
    /\ id \in DOMAIN wq
    /\ id \in sess[s].editing_data
    /\ new_site \in site_options(get_sites(sites, sitesOk))
    /\ IF storageOk
       THEN /\ wq' = StoreUpdate(wq, id,
                                 update_data(new_site, new_date, "",
                                             sample.widget, sample.na))
            /\ sess' = [sess EXCEPT ![s].editing_data = @ \ {id}]
            /\ Log("SaveChanges", s, [id |-> id, new_site |-> new_site], "success")
       ELSE /\ UNCHANGED <<wq, sess>>
            /\ Log("SaveChanges", s, [id |-> id, new_site |-> new_site], "error")
    /\ UNCHANGED <<nextId, sites, nextSiteId, pending_admins, auth_users, probe>>

\* Cancel of the edit form of row id
CancelEditButton(s, id, lookupOk) ==
    /\ steps < MaxSteps
    /\ IsUserAdmin(s, lookupOk)
    /\ id \in DOMAIN wq
    /\ id \in sess[s].editing_data
    /\ sess' = [sess EXCEPT ![s].editing_data = @ \ {id}]
    /\ Log("CancelEdit", s, Some(id), "ok")
    /\ UNCHANGED <<wq, nextId, sites, nextSiteId, pending_admins, auth_users, probe>>

Next ==
    \/ \E s \in Sessions, email \in Accounts : Login(s, email)
    \/ \E s \in Sessions : Logout(s)
    \/ \E s \in Sessions, selected_date \in Dates, sample \in FormSamples,
          sitesOk \in BOOLEAN, lookupOk \in BOOLEAN :
          \E selected_site \in site_options(get_sites(sites, sitesOk)) \cap FormSites,
             byIdOk \in IF IsNone(sess[s].clicked) THEN {TRUE} ELSE BOOLEAN :
             SubmitData(s, selected_site, selected_date, sample, byIdOk, lookupOk, sitesOk)
    \/ \E s \in Sessions, storageOk \in BOOLEAN : ConfirmSave(s, storageOk)
    \/ \E s \in Sessions : CancelSave(s)
    \/ \E s \in Sessions, id \in 1..MaxId, lookupOk \in BOOLEAN :
          \/ EditButton(s, id, lookupOk)
          \/ CancelEditButton(s, id, lookupOk)
          \/ \E storageOk \in BOOLEAN : DeleteButton(s, id, lookupOk, storageOk)
          \/ \E new_date \in Dates, sample \in FormSamples,
                sitesOk \in BOOLEAN, storageOk \in BOOLEAN :
                \E new_site \in site_options(get_sites(sites, sitesOk)) \cap FormSites :
                   SaveChangesButton(s, id, new_site, new_date, sample,
                                     lookupOk, sitesOk, storageOk)

Spec == Init /\ [][Next]_vars

----------------------------------------------------------------------------
(* Properties of the dashboard specification.                               *)

\* a handler of the given kind has just run (last' describes it)
Ran(kind) == steps' = steps + 1 /\ last'.kind = kind

\* the columns of a stored row without its surrogate id
RowData(row) == [k \in DOMAIN row \ {"id"} |-> row[k]]

\* every row of the first table but `id` is the same in the second
OthersKept(before, after, id) ==
    \A i \in DOMAIN before \ {id} : i \in DOMAIN after /\ after[i] = before[i]

\* C1: the entry form's submit button writes nothing to water_quality and
\* stages the payload in the session; an entry-form handler changes the
\* store only if it is Confirm Save run while a payload is staged, and the
\* row it inserts or updates then holds exactly the staged payload.
C1_SubmitStagesOnly ==
    [][ /\ Ran("Submit") =>
              /\ wq' = wq /\ nextId' = nextId
              /\ ~IsNone(sess'[last'.s].pending_wq_save)
        /\ (steps' = steps + 1 /\ wq' # wq
              /\ last'.kind \in {"Submit", "ConfirmSave", "CancelSave"}) =>
              /\ last'.kind = "ConfirmSave"
              /\ ~IsNone(sess[last'.s].pending_wq_save)
              /\ LET p == Get(sess[last'.s].pending_wq_save)
                 IN  IF IsNone(p.existing_id)
                     THEN /\ DOMAIN wq' = DOMAIN wq \cup {nextId}
                          /\ RowData(wq'[nextId]) = p.data
                          /\ OthersKept(wq, wq', nextId)
                     ELSE /\ DOMAIN wq' = DOMAIN wq
                          /\ RowData(wq'[Get(p.existing_id)]) = p.data
                          /\ OthersKept(wq, wq', Get(p.existing_id))
      ]_vars

\* a Confirm Save has just inserted the staged payload as a new row
C1_Witness ==
    /\ last.kind = "ConfirmSave" /\ last.result = "success"
    /\ IsNone(last.arg)
    /\ nextId - 1 \in DOMAIN wq
    /\ IsNone(sess[last.s].pending_wq_save)

\* C2: Cancel at the confirmation step runs only while a payload is staged
\* (with nothing staged there is no cancel to take), makes no storage call,
\* and changes the session only by removing the staged payload.
C2_Cancel ==
    [][ Ran("CancelSave") =>
            /\ ~IsNone(sess[last'.s].pending_wq_save)
            /\ wq' = wq /\ nextId' = nextId
            /\ sites' = sites /\ pending_admins' = pending_admins
            /\ auth_users' = auth_users
            /\ sess' = [sess EXCEPT ![last'.s].pending_wq_save = None]
      ]_vars

\* a staged payload has just been cancelled
C2_Witness ==
    /\ last.kind = "CancelSave"
    /\ IsNone(sess[last.s].pending_wq_save)
    /\ ~IsNone(sess[last.s].user)

\* the rows of the store that hold the staged payload's (site, date)
StagedKey(table, p) == SelectBySiteDate(table, p.data.site, p.data.date)

\* what a submit stages, against the store it was rendered from
SubmitDecides ==
    LET s == last'.s
        p == Get(sess'[s].pending_wq_save)
    IN  /\ StagedKey(wq, p) = {} => IsNone(p.existing_id)
        /\ StagedKey(wq, p) # {} =>
              ~IsNone(p.existing_id) /\ Get(p.existing_id) \in StagedKey(wq, p)

\* what a successful Confirm Save does with what is staged
ConfirmWrites ==
    LET s == last'.s
        p == Get(sess[s].pending_wq_save)
    IN  IF IsNone(p.existing_id)
        THEN /\ DOMAIN wq' = DOMAIN wq \cup {nextId}
             /\ nextId \notin DOMAIN wq
             /\ StagedKey(wq', p) = StagedKey(wq, p) \cup {nextId}
             /\ OthersKept(wq, wq', nextId)
        ELSE /\ DOMAIN wq' = DOMAIN wq
             /\ OthersKept(wq, wq', Get(p.existing_id))
             /\ Get(p.existing_id) \in DOMAIN wq =>
                   /\ wq'[Get(p.existing_id)].id = Get(p.existing_id)
                   /\ RowData(wq'[Get(p.existing_id)]) = p.data

\* C3 as claimed: every submit for (S, D) stages an insert when the store has
\* no row for (S, D) and an update of a row for (S, D) when it has one, and
\* the confirm then creates exactly one row, respectively rewrites that row
\* in place and creates none.
C3_RoundTrip ==
    [][ /\ Ran("Submit") => SubmitDecides
        /\ (Ran("ConfirmSave") /\ last'.result = "success") => ConfirmWrites
      ]_vars

\* C3 as amended: the same, for the submits whose (site, date) lookup
\* succeeded.
C3_RoundTripGivenLookup ==
    [][ /\ (Ran("Submit") /\ last'.arg.looked_up /\ ~last'.arg.by_click)
              => SubmitDecides
        /\ (Ran("ConfirmSave") /\ last'.result = "success") => ConfirmWrites
      ]_vars

\* a submit found, by its lookup, row 3, which only a Confirm Save of this
\* behaviour can have inserted (the initial stores hold rows 1 and 2 at most)
C3_Witness ==
    /\ last.kind = "Submit" /\ last.arg.looked_up
    /\ ~IsNone(sess[last.s].pending_wq_save)
    /\ Get(sess[last.s].pending_wq_save).existing_id = Some(3)
    /\ 3 \in DOMAIN wq

\* C8: a Delete click on a row whose confirmation is not armed leaves the
\* store as it is; its only effect is that this id's confirmation is armed.
C8_FirstDeleteArms ==
    [][ (Ran("Delete") /\ Get(last'.arg) \notin sess[last'.s].confirm_delete) =>
            /\ wq' = wq /\ nextId' = nextId
            /\ sites' = sites /\ pending_admins' = pending_admins
            /\ auth_users' = auth_users
            /\ sess' = [sess EXCEPT ![last'.s].confirm_delete =
                                        @ \cup {Get(last'.arg)}]
      ]_vars

\* a first Delete click has armed the confirmation of a row that is still
\* in the store
C8_Witness ==
    /\ last.kind = "Delete" /\ last.result = "armed"
    /\ Get(last.arg) \in DOMAIN wq
    /\ Get(last.arg) \in sess[last.s].confirm_delete

\* C9: a Delete click removes the record only if the handler run just before
\* it was a Delete click on the same id (stated for the clicks whose session
\* also ran the last handler).
C9_TwoConsecutive ==
    [][ (Ran("Delete") /\ DOMAIN wq' # DOMAIN wq /\ last.s = last'.s) =>
            (last.kind = "Delete" /\ last.arg = last'.arg)
      ]_vars

----------------------------------------------------------------------------
(* Properties of the site-management specification.                         *)

\* C11: Confirm Site Update with no surrogate id staged leaves the sites
\* table as it is, reports a warning (no error) and clears the staged site
\* payload; with an id staged, the update either fails and changes nothing or
\* replaces exactly the row of that id by the full staged payload; the staged
\* payload is cleared in every case.
C11_ConfirmSiteUpdate ==
    [][ Ran("ConfirmSiteUpdate") =>
          /\ ~IsNone(sess[last'.s].pending_site_save)
          /\ sess' = [sess EXCEPT ![last'.s].pending_site_save = None]
          /\ nextSiteId' = nextSiteId
          /\ LET p == Get(sess[last'.s].pending_site_save)
             IN  IF IsNone(p.id)
                 THEN sites' = sites /\ last'.result = "warning"
                 ELSE \/ last'.result = "error" /\ sites' = sites
                      \/ /\ last'.result = "success"
                         /\ Len(sites') = Len(sites)
                         /\ \A n \in 1..Len(sites) :
                              IF sites[n].id = Get(p.id)
                              THEN /\ sites'[n].id = sites[n].id
                                   /\ \A k \in DOMAIN p.payload :
                                         sites'[n][k] = p.payload[k]
                              ELSE sites'[n] = sites[n]
      ]_vars

\* a site update staged from the fallback listing (no id) has just been
\* confirmed and answered with the warning
C11_Witness ==
    /\ last.kind = "ConfirmSiteUpdate" /\ last.result = "warning"
    /\ IsNone(last.arg)
    /\ IsNone(sess[last.s].pending_site_save)

\* a site update with a known id has just been confirmed and written
C11_WitnessKnownId ==
    /\ last.kind = "ConfirmSiteUpdate" /\ last.result = "success"
    /\ \E n \in 1..Len(sites) :
          sites[n].id = Get(last.arg) /\ sites[n].short_name = "Blue"

----------------------------------------------------------------------------
(* Accounts and admin management: sign-up, the Add New Admin tab, and the   *)
(* admin-only tabs under changing approval.                                 *)

\* what the password fields of a form hold: matching, differing, empty
PasswordInputs ==
    {[password |-> "pw", confirm_password |-> "pw"],
     [password |-> "pw", confirm_password |-> "pw2"],
     [password |-> "", confirm_password |-> ""]}

\* how supabase.auth.sign_up ends: a new user, 'User already registered',
\* or another error
SignUpOutcomes == {"ok", "registered", "error"}

\* insert into pending_admins of an approved row for the email
AdminsInsert(table, email) ==
    table \cup {[email |-> email, status |-> "approved"]}

\* update({'status': 'approved', ...}).eq('email', email)
AdminsApprove(table, email) ==
    {IF r.email = email THEN [r EXCEPT !.status = "approved"] ELSE r : r \in table}

\* update({'status': 'denied'}).eq('id', admin['id']) on the listed row
AdminsDeny(table, row) ==
    (table \ {row}) \cup {[row EXCEPT !.status = "denied"]}

\* Sign Up of the sign-up page: differing passwords return before the auth
\* call
SignUp(s, email, pw, outcome) ==
    /\ steps < MaxSteps
    /\ IsNone(sess[s].user)
    /\ IF pw.password # pw.confirm_password
       THEN /\ UNCHANGED auth_users
            /\ Log("SignUp", s, [email |-> email, pw |-> pw], "invalid")
       ELSE IF outcome = "ok"
            THEN /\ auth_users' = auth_users \cup {email}
                 /\ Log("SignUp", s, [email |-> email, pw |-> pw], "success")
            ELSE /\ UNCHANGED auth_users
                 /\ Log("SignUp", s, [email |-> email, pw |-> pw], "error")
    /\ UNCHANGED <<wq, nextId, sites, nextSiteId, pending_admins, sess, probe>>

\* a plausible slip: the form is accepted whatever its fields hold
admin_form_valid_always(admin_email, pw) == TRUE

\* the two checks before the auth call of Create Admin Account
admin_form_valid(admin_email, pw) ==
    /\ admin_email # "" /\ pw.password # ""
    /\ pw.password = pw.confirm_password

\* Create Admin Account: after the checks, sign_up; a new user gets an
\* approved row (a failed insert is swallowed); a registered user has the
\* rows of the email approved, or an approved row inserted; any other error
\* is shown
CreateAdmin(s, admin_email, pw, outcome, lookupOk, storageOk) ==
    /\ steps < MaxSteps
    /\ IsUserAdmin(s, lookupOk)
    /\ IF ~admin_form_valid(admin_email, pw)
       THEN /\ UNCHANGED <<pending_admins, auth_users>>
            /\ Log("CreateAdmin", s, [email |-> admin_email, pw |-> pw], "invalid")
       ELSE IF outcome = "ok"
            THEN /\ auth_users' = auth_users \cup {admin_email}
                 /\ pending_admins' = IF storageOk
                                      THEN AdminsInsert(pending_admins, admin_email)
                                      ELSE pending_admins
                 /\ Log("CreateAdmin", s, [email |-> admin_email, pw |-> pw], "success")
            ELSE IF outcome = "registered" /\ storageOk
                 THEN /\ UNCHANGED auth_users
                      /\ pending_admins' =
                            IF \E r \in pending_admins : r.email = admin_email
                            THEN AdminsApprove(pending_admins, admin_email)
                            ELSE AdminsInsert(pending_admins, admin_email)
                      /\ Log("CreateAdmin", s, [email |-> admin_email, pw |-> pw], "success")
                 ELSE /\ UNCHANGED <<pending_admins, auth_users>>
                      /\ Log("CreateAdmin", s, [email |-> admin_email, pw |-> pw], "error")
    /\ UNCHANGED <<wq, nextId, sites, nextSiteId, sess, probe>>

\* the remove button of a listed approved admin; a failed call falls into
\* the bare except and changes nothing
RemoveAdmin(s, row, lookupOk, storageOk) ==
    /\ steps < MaxSteps
    /\ IsUserAdmin(s, lookupOk)
    /\ row \in pending_admins /\ row.status = "approved"
    /\ IF storageOk
       THEN /\ pending_admins' = AdminsDeny(pending_admins, row)
            /\ Log("RemoveAdmin", s, Some(row.email), "success")
       ELSE /\ UNCHANGED pending_admins
            /\ Log("RemoveAdmin", s, Some(row.email), "error")
    /\ UNCHANGED <<wq, nextId, sites, nextSiteId, auth_users, sess, probe>>

\* the volunteer account
Volunteer == "vol@brwg.org"

InitAccess ==
    /\ wq = <<Row(1, "Site 1", Date1, Some(1), Some(1), Volunteer)>>
    /\ nextId = 2
    /\ sites = DashboardSites /\ nextSiteId = 3
    /\ pending_admins \in {{}, {[email |-> Volunteer, status |-> "approved"]}}
    /\ auth_users \in {{ADMIN_EMAIL}, Accounts}
    /\ sess \in {IdleSessions,
                 [IdleSessions EXCEPT !["s1"].user = Some(Volunteer)]}
    /\ ~IsNone(sess["s1"].user) => Volunteer \in auth_users
    /\ last = NoAct /\ steps = 0
    /\ probe = NoProbe

\* the inputs of the admin forms of this specification
AccessSample == [widget |-> [f \in Fields |-> 0], na |-> [f \in Fields |-> FALSE]]
AccessSite == CHOOSE in \in SiteFormInputs : in.short_name = "Blue"

\* the Add New Site form filled in, and with each text field left empty
AddSiteInputs ==
    {AddSiteArg("Clear Creek- 7", "Clear Creek", "text"),
     AddSiteArg("", "Clear Creek", "text"),
     AddSiteArg("Clear Creek- 7", "", "text"),
     AddSiteArg("Clear Creek- 7", "Clear Creek", "")}

NextAccess ==
    \/ \E s \in Sessions, email \in Accounts : Login(s, email)
    \/ \E s \in Sessions : Logout(s)
    \/ \E s \in Sessions, pw \in PasswordInputs, outcome \in SignUpOutcomes :
          SignUp(s, Volunteer, pw, outcome)
    \/ \E s \in Sessions, admin_email \in {Volunteer, ""}, pw \in PasswordInputs,
          outcome \in SignUpOutcomes, lookupOk \in BOOLEAN, storageOk \in BOOLEAN :
          CreateAdmin(s, admin_email, pw, outcome, lookupOk, storageOk)
    \/ \E s \in Sessions, row \in pending_admins,
          lookupOk \in BOOLEAN, storageOk \in BOOLEAN :
          RemoveAdmin(s, row, lookupOk, storageOk)
    \/ \E s \in Sessions, lookupOk \in BOOLEAN, storageOk \in BOOLEAN :
          \/ EditButton(s, 1, lookupOk)
          \/ DeleteButton(s, 1, lookupOk, storageOk)
          \/ SaveChangesButton(s, 1, BlueFull, Date2, AccessSample,
                               lookupOk, TRUE, storageOk)
    \/ \E s \in Sessions, storageOk \in BOOLEAN :
          \/ EditSiteButton(s, 1, TRUE)
          \/ SaveSiteChanges(s, 1, TRUE, AccessSite.site_number, AccessSite.full_name,
                             AccessSite.short_name, AccessSite.description)
          \/ ConfirmSiteUpdate(s, storageOk)
          \/ \E in \in AddSiteInputs :
                AddNewSite(s, 7, in.full_name, in.short_name, in.description,
                           storageOk)

SpecAccess == InitAccess /\ [][NextAccess]_vars

\* the session's user is logged in and is the configured administrator or
\* has an approved row
AdminNow(s) ==
    /\ ~IsNone(sess[s].user)
    /\ \/ Get(sess[s].user) = ADMIN_EMAIL
       \/ [email |-> Get(sess[s].user), status |-> "approved"] \in pending_admins

\* handlers of the admin-only tabs
AdminKinds ==
    {"Edit", "Delete", "SaveChanges", "CancelEdit", "EditSite", "SaveSiteChanges",
     "CancelSiteEdit", "ConfirmSiteUpdate", "CancelSiteUpdate", "AddNewSite",
     "CreateAdmin", "RemoveAdmin"}

\* C12: a handler run deletes a water_quality row, saves an admin list edit,
\* changes the sites table or changes the pending_admins table only in a
\* session whose logged-in user is admin when the handler runs; no handler of
\* the admin-only tabs runs in any other session.
C12_AdminOnly ==
    [][ (steps' = steps + 1 /\
            \/ DOMAIN wq' # DOMAIN wq
            \/ last'.kind = "SaveChanges"
            \/ sites' # sites
            \/ pending_admins' # pending_admins
            \/ last'.kind \in AdminKinds)
          => AdminNow(last'.s)
      ]_vars

\* a session whose user was admin, opened a row's edit form and has since
\* been set to denied is still logged in, and handlers can still run
C12_Witness ==
    \E s \in Sessions :
        /\ sess[s].user = Some(Volunteer)
        /\ sess[s].editing_data # {}
        /\ [email |-> Volunteer, status |-> "denied"] \in pending_admins
        /\ ~AdminNow(s)
        /\ last.kind = "RemoveAdmin" /\ last.result = "success"
        /\ steps < MaxSteps

\* no table and no auth account changes in the step
NoRemoteEffect ==
    /\ wq' = wq /\ nextId' = nextId
    /\ sites' = sites /\ nextSiteId' = nextSiteId
    /\ pending_admins' = pending_admins
    /\ auth_users' = auth_users

\* C13: sign-up with differing passwords, Create Admin Account with an empty
\* email, an empty password or differing passwords, and Add New Site with an
\* empty full name, short name or description are answered with the
\* validation message and change no table and no auth account.
C13_ValidationFirst ==
    [][ /\ (Ran("SignUp") /\ last'.arg.pw.password # last'.arg.pw.confirm_password)
              => NoRemoteEffect /\ last'.result = "invalid"
        /\ (Ran("CreateAdmin") /\
               \/ last'.arg.email = ""
               \/ last'.arg.pw.password = ""
               \/ last'.arg.pw.password # last'.arg.pw.confirm_password)
              => NoRemoteEffect /\ last'.result = "invalid"
        /\ (Ran("AddNewSite") /\
               \/ last'.arg.full_name = ""
               \/ last'.arg.short_name = ""
               \/ last'.arg.description = "")
              => NoRemoteEffect /\ last'.result = "invalid"
      ]_vars

\* Create Admin Account has just been refused for differing passwords
C13_Witness ==
    /\ last.kind = "CreateAdmin" /\ last.result = "invalid"
    /\ last.arg.email = Volunteer
    /\ last.arg.pw.password # last.arg.pw.confirm_password

\* Add New Site has just been refused for an empty description
C13_WitnessSite ==
    /\ last.kind = "AddNewSite" /\ last.result = "invalid"
    /\ last.arg.full_name # "" /\ last.arg.description = ""

----------------------------------------------------------------------------
(* Further properties of the dashboard specification.                       *)

\* the full names a form's site selectbox can offer
ListedFullNames ==
    site_options(get_sites(sites, TRUE)) \cup site_options(DefaultSites)

\* the rows a step has inserted or rewritten
Written == {i \in DOMAIN wq' : i \notin DOMAIN wq \/ wq'[i] # wq[i]}

StoredNameOf(selected) ==
    IF \E t \in LegacyTokens : LegacyFull(t) = selected
    THEN CHOOSE t \in LegacyTokens : LegacyFull(t) = selected
    ELSE selected

----------------------------------------------------------------------------
(* Further properties of the site-management specification.                 *)

\* C15: no two rows of the sites table have the same full name.
C15_UniqueFullNames ==
    \A i, j \in 1..Len(sites) :
        i # j => sites[i].full_name # sites[j].full_name

\* the surrogate ids of a sites table
SiteIds(table) == {table[n].id : n \in 1..Len(table)}

\* C16: no step removes a site: every id of the sites table is still in the
\* table after the step.
C16_NoSiteDeletion ==
    [][ SiteIds(sites) \subseteq SiteIds(sites') ]_vars

\* site 1 has just been renamed by a confirmed update and is still there
C16_Witness ==
    /\ last.kind = "ConfirmSiteUpdate" /\ last.result = "success"
    /\ last.arg = Some(1)
    /\ \E n \in 1..Len(sites) :
          sites[n].id = 1 /\ sites[n].full_name = "Clear Creek- 7"

----------------------------------------------------------------------------
(* Two logged-in sessions writing the same record.                          *)

\* both sessions are logged in, the administrator has the edit form of row 1
\* open, and the store holds row 1
InitRace ==
    /\ wq = <<Row(1, "Site 1", Date1, Some(1), Some(1), Volunteer)>>
    /\ nextId = 2
    /\ sites = DashboardSites /\ nextSiteId = 3
    /\ pending_admins = {[email |-> Volunteer, status |-> "approved"]}
    /\ auth_users = Accounts
    /\ sess = [s \in Sessions |->
                 IF s = "s1"
                 THEN [NewSession EXCEPT !.user = Some(ADMIN_EMAIL),
                                         !.editing_data = {1}]
                 ELSE [NewSession EXCEPT !.user = Some(Volunteer)]]
    /\ last = NoAct /\ steps = 0
    /\ probe = NoProbe

NextRace ==
    \/ \E s \in Sessions, selected_date \in Dates, sample \in FormSamples,
          lookupOk \in BOOLEAN :
          SubmitData(s, BlueFull, selected_date, sample, TRUE, lookupOk, TRUE)
    \/ \E s \in Sessions, storageOk \in BOOLEAN : ConfirmSave(s, storageOk)
    \/ \E s \in Sessions : CancelSave(s)
    \/ \E s \in Sessions, sample \in FormSamples, storageOk \in BOOLEAN :
          SaveChangesButton(s, 1, BlueFull, Date1, sample, TRUE, TRUE, storageOk)

SpecRace == InitRace /\ [][NextRace]_vars

\* C17: a session holding a staged update of a stored record can always
\* confirm it, whatever the other session has staged or written in between,
\* and after a successful Confirm Save the stored record equals that
\* session's staged payload: the confirm that runs last determines the
\* record.
C17_LastWriterWins ==
    /\ [](\A s \in Sessions :
            (/\ steps < MaxSteps
             /\ ~IsNone(sess[s].pending_wq_save)
             /\ ~IsNone(Get(sess[s].pending_wq_save).existing_id))
               => ENABLED ConfirmSave(s, TRUE))
    /\ [][ (Ran("ConfirmSave") /\ last'.result = "success"
              /\ ~IsNone(last'.arg) /\ Get(last'.arg) \in DOMAIN wq) =>
             /\ DOMAIN wq' = DOMAIN wq
             /\ RowData(wq'[Get(last'.arg)])
                   = Get(sess[last'.s].pending_wq_save).data
             /\ OthersKept(wq, wq', Get(last'.arg))
         ]_vars

\* session s1 has just confirmed its update of row 1 while session s2 holds
\* a different staged update of row 1, staged before, and can still confirm
C17_Witness ==
    /\ last = Act("ConfirmSave", "s1", Some(1), "success")
    /\ ~IsNone(sess["s2"].pending_wq_save)
    /\ Get(sess["s2"].pending_wq_save).existing_id = Some(1)
    /\ Get(sess["s2"].pending_wq_save).data # RowData(wq[1])
    /\ wq[1].user_id = UserId(ADMIN_EMAIL)
    /\ steps < MaxSteps

----------------------------------------------------------------------------
(* Failure paths.                                                           *)

\* the step changed no table and no session state
PriorStateKept ==
    /\ wq' = wq /\ nextId' = nextId
    /\ sites' = sites /\ nextSiteId' = nextSiteId
    /\ pending_admins' = pending_admins
    /\ sess' = sess

\* C18: when the storage call of Confirm Save, Confirm Site Update, Save
\* Changes of the admin list, Delete of the admin list or Add New Site fails,
\* no table is changed and the session state (staged payloads, editing
\* flags, armed delete flags) is as before the action.
C18_FailureKeepsState ==
    [][ (steps' = steps + 1 /\ last'.result = "error"
           /\ last'.kind \in {"ConfirmSave", "ConfirmSiteUpdate", "SaveChanges",
                              "Delete", "AddNewSite"})
          => PriorStateKept
      ]_vars

\* C18 without Confirm Site Update: the failure paths of the other four
\* handlers keep the tables and the session state.
C18_OtherFailuresKeepState ==
    [][ (steps' = steps + 1 /\ last'.result = "error"
           /\ last'.kind \in {"ConfirmSave", "SaveChanges", "Delete", "AddNewSite"})
          => PriorStateKept
      ]_vars

----------------------------------------------------------------------------
(* Properties of the chart clicks.                                          *)

\* a click has just been handled
Clicked == probe'.op = "click"

\* the plotted point a click was made on, when the click is on one
ClickedTrace ==
    trace_names(wq, probe'.param_col, probe'.pairs)

ClickedPoints ==
    trace_points(wq, probe'.param_col, probe'.pairs,
                 ClickedTrace[probe'.curve_number + 1])

\* C19: for every store and every click of an admin on a plotted point,
\* given by the index of its curve and its index within the curve, the
\* clicked_id put in the session is the id of the record that point shows.
C19_ClickResolves ==
    [][ (Clicked /\ probe'.curve_number < Len(ClickedTrace)
                 /\ probe'.point_index < Len(ClickedPoints)) =>
          /\ ~IsNone(sess'[probe'.s].clicked)
          /\ Get(sess'[probe'.s].clicked).id
                = ClickedPoints[probe'.point_index + 1].id
      ]_vars

\* C20: a click whose curve number is not below the number of plotted sites,
\* or whose point index is not below the number of rows of the resolved
\* site, changes neither the session nor the store and reports nothing.
C20_ClickOutOfRange ==
    [][ (Clicked /\
           \/ probe'.curve_number >= Len(unique_sites(wq, probe'.pairs))
           \/ probe'.point_index >=
                 Len(site_data(wq, probe'.pairs,
                               unique_sites(wq, probe'.pairs)[probe'.curve_number + 1])))
          => /\ sess' = sess /\ wq' = wq /\ nextId' = nextId
             /\ probe'.result = "ignored"
      ]_vars

\* a click beyond the rows of a plotted site has been handled in a session
\* that holds an earlier selection
C20_Witness ==
    /\ probe.op = "click" /\ probe.result = "ignored"
    /\ probe.curve_number < Len(unique_sites(wq, probe.pairs))
    /\ ~IsNone(sess[probe.s].clicked)

----------------------------------------------------------------------------
(* Properties of the deduplicated series.                                   *)

\* the first row of a (site, date) pair in date order
FirstRowOf(site, date) ==
    LET order == df_ids(wq)
    IN  SelectSeq(order, LAMBDA i : wq[i].site = site /\ wq[i].date = date)[1]

\* C21: a drawn series has at most one point per (site, date); the value of
\* the point is that of the pair's first row in date order after the
\* zero-to-gap conversion (a gap when that row has none), and the id of the
\* point is the id of that same row.
C21_FirstRowPoint ==
    (probe.op = "chart" /\ probe.drawn) =>
        \A p \in Fields :
            /\ \A a, b \in probe.series[p] :
                  (a.site = b.site /\ a.date = b.date) => a = b
            /\ \A pt \in probe.series[p] :
                  /\ pt.id = FirstRowOf(pt.site, pt.date)
                  /\ pt.y = df_processed(wq, pt.id, p)

\* the point a drawn series of column p has for the (site, date) of row i
PointOf(p, i) ==
    CHOOSE pt \in probe.series[p] : pt.site = wq[i].site /\ pt.date = wq[i].date

\* row i is the only row of its (site, date)
OnlyRowOfPair(i) == SelectBySiteDate(wq, wq[i].site, wq[i].date) = {i}

\* C22 as stated: of the seven charted columns flow is the only one whose
\* stored 0 is drawn as a point; a stored 0 of each of the other six is a gap.
C22_OnlyFlowKeepsZero ==
    (probe.op = "chart" /\ probe.drawn) =>
        \A i \in DOMAIN wq : \A n \in 1..Len(parameters) :
            (OnlyRowOfPair(i) /\ wq[i][parameters[n]] = Some(0)) =>
                PointOf(parameters[n], i).y
                    = IF parameters[n] = "flow" THEN Some(0) ELSE None

\* C22: of the seven charted columns, flow and temperature are the two whose
\* stored 0 is drawn as a point; a stored 0 of each of the five chemistry
\* columns is a gap.
C22_FlowAndTemperatureKeepZero ==
    (probe.op = "chart" /\ probe.drawn) =>
        \A i \in DOMAIN wq : \A n \in 1..Len(parameters) :
            (OnlyRowOfPair(i) /\ wq[i][parameters[n]] = Some(0)) =>
                PointOf(parameters[n], i).y
                    = IF parameters[n] \in {"flow", "temperature"} THEN Some(0) ELSE None

\* a chart is drawn of a store with a lone row whose values are all 0
C22_Witness ==
    /\ probe.op = "chart" /\ probe.drawn
    /\ \E i \in DOMAIN wq :
          /\ OnlyRowOfPair(i)
          /\ \A n \in 1..Len(parameters) : wq[i][parameters[n]] = Some(0)
          /\ PointOf("temperature", i).y = Some(0)
          /\ PointOf("ph", i).y = None

----------------------------------------------------------------------------
(* Properties of the staged measurement payload.                            *)

\* C23: the staged measurement payload of a session changes only in a step
\* of that session that is a form submit (which leaves one staged), a
\* successful Confirm Save (which removes it) or a Cancel (which removes it);
\* login, logout, the admin list actions, a failed Confirm Save and every
\* step of another session leave it as it is.
C23_StagedPayloadFrame ==
    [][ \A s \in Sessions :
          sess'[s].pending_wq_save # sess[s].pending_wq_save =>
            /\ steps' = steps + 1
            /\ last'.s = s
            /\ \/ last'.kind = "Submit" /\ ~IsNone(sess'[s].pending_wq_save)
               \/ /\ last'.kind = "ConfirmSave" /\ last'.result = "success"
                  /\ IsNone(sess'[s].pending_wq_save)
               \/ last'.kind = "CancelSave" /\ IsNone(sess'[s].pending_wq_save)
      ]_vars

\* a session has logged out while its payload was staged, and holds it still
C23_Witness ==
    /\ last.kind = "Logout"
    /\ IsNone(sess[last.s].user)
    /\ ~IsNone(sess[last.s].pending_wq_save)

----------------------------------------------------------------------------
(* What happens between a form submit and its Confirm Save.                 *)

\* both sessions are logged in and the store holds row 1; between a submit
\* and its confirm the other session submits and confirms, the administrator
\* deletes or saves its open edit form, and users log out and in
NextBetween ==
    \/ \E s \in Sessions, selected_date \in Dates, sample \in FormSamples,
          lookupOk \in BOOLEAN :
          SubmitData(s, BlueFull, selected_date, sample, TRUE, lookupOk, TRUE)
    \/ \E s \in Sessions, storageOk \in BOOLEAN : ConfirmSave(s, storageOk)
    \/ \E s \in Sessions : CancelSave(s)
    \/ \E s \in Sessions, id \in 1..MaxId, storageOk \in BOOLEAN :
          DeleteButton(s, id, TRUE, storageOk)
    \/ \E s \in Sessions, sample \in FormSamples, storageOk \in BOOLEAN :
          SaveChangesButton(s, 1, BlueFull, Date1, sample, TRUE, TRUE, storageOk)
    \/ \E s \in Sessions : Logout(s)
    \/ \E s \in Sessions, email \in Accounts : Login(s, email)

SpecBetween == InitRace /\ [][NextBetween]_vars

\* C24: a successful Confirm Save updates by the staged record id when the
\* staged payload carries one and inserts otherwise, and nothing but a new
\* submit of the session changes the staged id: the decision taken at submit
\* is the one carried out, whatever has happened to the store since.
C24_DecidedAtSubmit ==
    [][ /\ (Ran("ConfirmSave") /\ last'.result = "success") =>
              LET p == Get(sess[last'.s].pending_wq_save)
              IN  IF ~IsNone(p.existing_id)
                  THEN /\ DOMAIN wq' = DOMAIN wq /\ nextId' = nextId
                       /\ OthersKept(wq, wq', Get(p.existing_id))
                       /\ Get(p.existing_id) \in DOMAIN wq =>
                             RowData(wq'[Get(p.existing_id)]) = p.data
                  ELSE /\ DOMAIN wq' = DOMAIN wq \cup {nextId}
                       /\ nextId \notin DOMAIN wq /\ nextId' = nextId + 1
                       /\ RowData(wq'[nextId]) = p.data
                       /\ OthersKept(wq, wq', nextId)
        /\ \A s \in Sessions :
              (/\ ~IsNone(sess[s].pending_wq_save)
               /\ ~IsNone(sess'[s].pending_wq_save)
               /\ Get(sess'[s].pending_wq_save).existing_id
                     # Get(sess[s].pending_wq_save).existing_id)
                 => (Ran("Submit") /\ last'.s = s)
      ]_vars

\* a Confirm Save has succeeded for an update staged for a record that was
\* deleted after the submit: nothing was inserted in its place
C24_Witness ==
    /\ last.kind = "ConfirmSave" /\ last.result = "success"
    /\ ~IsNone(last.arg)
    /\ Get(last.arg) \notin DOMAIN wq
    /\ nextId = 2

----------------------------------------------------------------------------
(* The hand-off of a chart click to the entry form.                         *)

\* the entry form is rendered: existing_id is taken from the clicked record
\* or from the (site, date) lookup of the selected site and date, and the
\* clicked_* keys are deleted
RenderEntryForm(s, selected_site, selected_date, byIdOk, lookupOk) ==
    /\ ~IsNone(sess[s].user)
    /\ \E existing_id \in existing_ids(sess[s], wq, selected_site, selected_date,
                                       byIdOk, lookupOk) :
          probe' = [op |-> "form", s |-> s,
                    existing_id |-> existing_id,
                    byIdOk |-> byIdOk,
                    looked_up |-> ~(/\ ~IsNone(sess[s].clicked)
                                    /\ byIdOk
                                    /\ Get(sess[s].clicked).id \in DOMAIN wq)]
    /\ sess' = [sess EXCEPT ![s].clicked = None]
    /\ UNCHANGED <<wq, nextId, sites, nextSiteId, pending_admins, auth_users, last, steps>>

NextHandoff ==
    \/ \E s \in Sessions, param_col \in ClickedCharts, sitesOk \in BOOLEAN,
          curve_number \in 0..MaxChartRows, point_index \in 0..MaxChartRows :
          ChartClick(s, param_col, curve_number, point_index, sitesOk)
    \/ \E s \in Sessions, selected_date \in Dates,
          byIdOk \in BOOLEAN, lookupOk \in BOOLEAN :
          RenderEntryForm(s, BlueFull, selected_date, byIdOk, lookupOk)

SpecHandoff == InitClick /\ [][NextHandoff]_vars

\* the entry form has just been rendered
Rendered == probe'.op = "form"

\* C25 as stated: a render of the entry form in a session that holds a
\* clicked id of a stored record knows that id as its record id and skips the
\* (site, date) lookup; after every render the clicked keys are absent.
C25_ClickHandOff ==
    [][ Rendered =>
          /\ IsNone(sess'[probe'.s].clicked)
          /\ (/\ ~IsNone(sess[probe'.s].clicked)
              /\ Get(sess[probe'.s].clicked).id \in DOMAIN wq) =>
                 /\ probe'.existing_id = Some(Get(sess[probe'.s].clicked).id)
                 /\ ~probe'.looked_up
      ]_vars

\* C25: a render of the entry form in a session that holds a clicked id of a
\* stored record, whose fetch by id succeeds, knows that id as its record id
\* and skips the (site, date) lookup; after every render the clicked keys are
\* absent, whether or not the fetch by id succeeded.
C25_ClickHandOffGivenFetch ==
    [][ Rendered =>
          /\ IsNone(sess'[probe'.s].clicked)
          /\ (/\ ~IsNone(sess[probe'.s].clicked)
              /\ Get(sess[probe'.s].clicked).id \in DOMAIN wq
              /\ probe'.byIdOk) =>
                 /\ probe'.existing_id = Some(Get(sess[probe'.s].clicked).id)
                 /\ ~probe'.looked_up
      ]_vars

\* the form has been rendered after a click on a record of another site than
\* the selected one: the record of the click is the form's record, and the
\* click is consumed
C25_Witness ==
    /\ probe.op = "form" /\ ~probe.looked_up
    /\ ~IsNone(probe.existing_id)
    /\ wq[Get(probe.existing_id)].site = "Mystery Creek"
    /\ IsNone(sess[probe.s].clicked)

\* C26: a Confirm Save that reports success for a staged update of record X
\* leaves a record X in the store whose fields are the staged payload, also
\* when X was deleted between the submit and the confirm.
C26_UpdateLeavesRecord ==
    [][ (Ran("ConfirmSave") /\ last'.result = "success" /\ ~IsNone(last'.arg)) =>
          /\ Get(last'.arg) \in DOMAIN wq'
          /\ RowData(wq'[Get(last'.arg)]) = Get(sess[last'.s].pending_wq_save).data
      ]_vars

\* the row a successful Confirm Save has written, if it wrote one
WrittenRow ==
    IF IsNone(last'.arg) THEN nextId ELSE Get(last'.arg)

\* C27: the user_id of a record written by Confirm Save is the id of the
\* user logged in to the confirming session at confirm time, also when the
\* payload was staged by a user who has logged out since.
C27_ConfirmerIsAuthor ==
    [][ (Ran("ConfirmSave") /\ last'.result = "success"
           /\ WrittenRow \in DOMAIN wq') =>
          wq'[WrittenRow].user_id = UserId(Get(sess[last'.s].user))
      ]_vars

\* C28: an update confirmed through the entry form sets the record's user_id
\* to the confirming session's user and keeps its id; an update saved through
\* the admin list edit keeps both the record's user_id and its id.
C28_UpdateUserAndId ==
    [][ /\ (Ran("ConfirmSave") /\ last'.result = "success"
              /\ ~IsNone(last'.arg) /\ Get(last'.arg) \in DOMAIN wq) =>
              /\ wq'[Get(last'.arg)].id = Get(last'.arg)
              /\ wq'[Get(last'.arg)].user_id = UserId(Get(sess[last'.s].user))
        /\ (Ran("SaveChanges") /\ last'.result = "success") =>
              /\ wq'[last'.arg.id].id = last'.arg.id
              /\ wq'[last'.arg.id].user_id = wq[last'.arg.id].user_id
      ]_vars

\* what holds of the two updates: the entry form writes the user_id staged at
\* submit and keeps the id, the admin list edit keeps both
C28_UpdateWritesStagedUser ==
    [][ /\ (Ran("ConfirmSave") /\ last'.result = "success"
              /\ ~IsNone(last'.arg) /\ Get(last'.arg) \in DOMAIN wq) =>
              /\ wq'[Get(last'.arg)].id = Get(last'.arg)
              /\ wq'[Get(last'.arg)].user_id
                    = Get(sess[last'.s].pending_wq_save).data.user_id
        /\ (Ran("SaveChanges") /\ last'.result = "success") =>
              /\ wq'[last'.arg.id].id = last'.arg.id
              /\ wq'[last'.arg.id].user_id = wq[last'.arg.id].user_id
      ]_vars

----------------------------------------------------------------------------
(* The admin list edit form saved with its site selector untouched.         *)

\* current_site_idx of the edit form: the index of the first listed site
\* whose full name is the stored value, or whose short name is that of the
\* stored legacy token; 0 when there is none
current_site_idx(stored, pairs) ==
    LET hits == {i \in 1..Len(pairs) :
                    \/ stored = pairs[i][1]
                    \/ /\ stored \in LegacyTokens
                       /\ site_mapping(pairs)[stored] = pairs[i][2]}
    IN  IF hits = {}
        THEN 0
        ELSE (CHOOSE i \in hits : \A j \in hits : i <= j) - 1

\* the stored site values of the edited record: a legacy token of a listed
\* site, a listed full name, a full name that is no default, a value that
\* matches nothing, and a legacy token of a site that may not be listed
EditedSiteValues == {"Site 1", BlueFull, "Clear Creek- 7", "Mystery Creek", "Site 3"}

InitEdit ==
    /\ \E site \in EditedSiteValues, date \in Dates :
          wq = <<Row(1, site, date, Some(1), Some(1), Volunteer)>>
    /\ nextId = 2
    /\ sites \in {SeededSites, DashboardSites}
    /\ nextSiteId = Len(sites) + 1
    /\ pending_admins = {}
    /\ auth_users = Accounts
    /\ sess = [s \in Sessions |->
                 IF s = "s1" THEN [NewSession EXCEPT !.user = Some(ADMIN_EMAIL)]
                 ELSE NewSession]
    /\ last = NoAct /\ steps = 0
    /\ probe = NoProbe

\* Save Changes with the selectbox and the date input left at the values the
\* form was rendered with
SaveUntouched(s, id, sample, sitesOk, storageOk) ==
    /\ id \in DOMAIN wq
    /\ LET pairs == get_sites(sites, sitesOk)
       IN  SaveChangesButton(s, id,
                             pairs[current_site_idx(wq[id].site, pairs) + 1][1],
                             to_datetime(wq[id].date),
                             sample, TRUE, sitesOk, storageOk)

NextEdit ==
    \/ \E s \in Sessions, id \in 1..MaxId : EditButton(s, id, TRUE)
    \/ \E s \in Sessions, id \in 1..MaxId, sample \in FormSamples,
          sitesOk \in BOOLEAN, storageOk \in BOOLEAN :
          SaveUntouched(s, id, sample, sitesOk, storageOk)

SpecEdit == InitEdit /\ [][NextEdit]_vars

\* C29: a successful Save Changes of the edit form with its site selector
\* untouched leaves the record with the same monitoring site (its stored
\* value names the same site as before), whatever the stored value was.
C29_UntouchedSiteKept ==
    [][ (Ran("SaveChanges") /\ last'.result = "success") =>
          full_site_name(wq'[last'.arg.id].site)
              = full_site_name(wq[last'.arg.id].site)
      ]_vars

----------------------------------------------------------------------------
(* Properties of the Create Admin Account action.                           *)

\* C30: when Create Admin Account reports success for an email, the
\* pending_admins table holds an approved row of that email afterwards and
\* is_admin of the email is true, also when the sign-up succeeded and the
\* insert into pending_admins failed.
C30_CreatedAdminIsAdmin ==
    [][ (Ran("CreateAdmin") /\ last'.result = "success") =>
          /\ \E r \in pending_admins' :
                r.email = last'.arg.email /\ r.status = "approved"
          /\ is_admin(last'.arg.email, pending_admins', TRUE)
      ]_vars

====
